---- MODULE Spec2Model ----
(***************************************************************************)
(* A model of the unpivoted context t_ctxunit                              *)
(* (cpp/perspective/src/cpp/context_unit.cpp): its delta tracking          *)
(* (step_begin / notify / get_row_delta / clear_deltas / reset) and its    *)
(* three get_data overloads, over a master state t_gstate and a symbol     *)
(* table whose code lives outside the translated file.                     *)
(***************************************************************************)
EXTENDS Integers, Sequences, FiniteSets, TLC

(***************************************************************************)
(* Bounds of the model.                                                    *)
(***************************************************************************)
\* rows of one flattened table handed to notify
MaxBatch == 2
\* rows of one batch applied to the master state
MaxUpdate == 2
\* rows of one flattened table handed to a notify that runs beside a
\* get_row_delta
MaxConcBatch == 1
\* largest row / column index handed to a get_data overload
MaxIdx == 2
\* this.chunk_size of a WebSocketManager, in bytes, scaled down from
\* 50 * 1000 * 1000
ChunkSize == 2
\* bytes of the largest binary sent over a socket
MaxBinary == 4
\* connections added to one WebSocketManager
MaxConns == 2
\* requests one WebSocketManager receives and calls of post it makes
MaxRequests == 1
MaxPosts == 2
\* messages the peers of one WebSocketManager send it
MaxSends == 2
\* pings the peers of one WebSocketManager send
MaxPings == 1
\* times one object is hosted
MaxHostCalls == 1

(***************************************************************************)
(* Primary keys, cell values and operation tags.                           *)
(***************************************************************************)
Keys == {"A", "B"}

Values == {"1", "2", "5"}

OP_INSERT == "OP_INSERT"

OP_DELETE == "OP_DELETE"

\* the UPDATE tag the data model of the specification names; the switch of
\* notify has no case for it
OP_UPDATE == "OP_UPDATE"

\* any other value of the std::uint8_t read from psp_op
OP_UNKNOWN == "OP_UNKNOWN"

Ops == {OP_INSERT, OP_DELETE, OP_UPDATE, OP_UNKNOWN}

(***************************************************************************)
(* t_tscalar: a tagged value with a validity status.                       *)
(***************************************************************************)
mkscalar(type, status, data) == [type |-> type, status |-> status, data |-> data]

\* the "none" scalar put in place of cells without a stored value
mknone == mkscalar("DTYPE_NONE", "STATUS_VALID", "")

\* a value-initialised t_tscalar, as std::vector<t_tscalar>(n) holds
t_tscalar_default == mkscalar("DTYPE_NONE", "STATUS_INVALID", "")

\* a null cell of a typed column and the "clear"/unset sentinel
mknull(type) == mkscalar(type, "STATUS_INVALID", "")

mkclear(type) == mkscalar(type, "STATUS_CLEAR", "")

mkstr(k) == mkscalar("DTYPE_STR", "STATUS_VALID", k)

mkint(v) == mkscalar("DTYPE_INT64", "STATUS_VALID", v)

is_valid(v) == v.status = "STATUS_VALID"

\* what a value column can hold for one row
ValueCells == {mkint(v) : v \in Values} \cup {mknull("DTYPE_INT64"), mkclear("DTYPE_INT64")}

\* what a read past the end of a column buffer can produce
GarbageCells == ValueCells \cup {mkstr(k) : k \in Keys} \cup {mknull("DTYPE_STR")}

(***************************************************************************)
(* Generic helpers.                                                        *)
(***************************************************************************)
Min(a, b) == IF a < b THEN a ELSE b

Max(a, b) == IF a > b THEN a ELSE b

SeqsUpTo(S, n) == UNION {[1..k -> S] : k \in 0..n}

Range(s) == {s[i] : i \in 1..Len(s)}

\* the orders in which a copy can enumerate an unordered set
Orderings(S) == {s \in [1..Cardinality(S) -> S] : Range(s) = S}

(***************************************************************************)
(* The schema of the context: the columns of the concrete scenario.        *)
(***************************************************************************)
columns == <<"pkey", "value">>


(***************************************************************************)
(* State.  ctx is the t_ctxunit object, m_gstate the master state it       *)
(* reads, last the call that has just returned (NoCall between calls) and  *)
(* streak the number of get_row_delta calls made in succession; inserted   *)
(* holds the primary keys the insert-only batches have inserted so far and *)
(* tracked tells whether a notify has handed a key to add_delta_pkey since *)
(* the last call of step_begin.                                            *)
(* wsclient is a WebSocketClient with its socket, wsmanager a              *)
(* WebSocketManager with the sockets of its connections.                   *)
(***************************************************************************)
VARIABLES ctx, m_gstate, last, streak, scn, conc, inserted, tracked, wsclient, wsmanager

\* the two objects of websocket.js
ws_vars == <<wsclient, wsmanager>>

vars == <<ctx, m_gstate, last, streak, scn, conc, inserted, tracked, ws_vars>>

(***************************************************************************)
(* Symbol table: the values interned so far, in the order they were        *)
(* interned; a handle is the position of its value.                        *)
(***************************************************************************)
IndexOf(seq, x) == CHOOSE i \in 1..Len(seq) : seq[i] = x

is_interned(symtable, k) == \E i \in 1..Len(symtable) : symtable[i] = k

\* the table after get_interned_tscalar(k)
symtable_after(symtable, k) == IF is_interned(symtable, k) THEN symtable ELSE Append(symtable, k)

\* the handle get_interned_tscalar(k) returns
get_interned_tscalar(symtable, k) == IndexOf(symtable_after(symtable, k), k)

\* the value a handle stands for
handle_value(symtable, h) == symtable[h]

(***************************************************************************)
(* Master state: the live rows in table order, one per primary key.        *)
(***************************************************************************)
gstate_num_rows(g) == Len(g)

gstate_num_columns == Len(columns)

gstate_has_pkey(g, k) == \E i \in 1..Len(g) : g[i].pkey = k

\* the cell of column col in the row at 0-based index ridx
gstate_cell(g, col, ridx) == IF col = "pkey" THEN mkstr(g[ridx + 1].pkey) ELSE g[ridx + 1].value

\* read_column(col, start, end, out): the cells of rows start..end-1; a row
\* index outside the table reads whatever lies there (garbage); an empty
\* request leaves out as it was
read_column_range(g, col, start_idx, end_idx, out_data, garbage) ==
    IF end_idx - start_idx <= 0 THEN out_data
    ELSE [j \in 1..(end_idx - start_idx) |->
            LET ridx == start_idx + j - 1
            IN IF ridx >= 0 /\ ridx < gstate_num_rows(g) THEN gstate_cell(g, col, ridx) ELSE garbage]

\* read_column(col, rows, out): the cells of the rows named by index
read_column_rows(g, col, rows, garbage) ==
    [j \in 1..Len(rows) |->
        IF rows[j] < gstate_num_rows(g) THEN gstate_cell(g, col, rows[j]) ELSE garbage]

\* read_column(col, pkeys, out): the cells of the rows named by key; a key
\* without a live row leaves its slot of out untouched
read_column_pkeys(g, col, pkeys, out_data) ==
    [j \in 1..Len(pkeys) |->
        IF gstate_has_pkey(g, pkeys[j])
        THEN gstate_cell(g, col, (CHOOSE i \in 1..Len(g) : g[i].pkey = pkeys[j]) - 1)
        ELSE out_data[j]]


(***************************************************************************)
(* t_ctxunit.  A context is a record of its members; every method is an    *)
(* operator from the context before the call to the context after it.      *)
(***************************************************************************)
\* t_ctxunit(schema): m_has_delta(false); the two changed flags are set by
\* the base class, whose constructor is not part of the translated file
ctx_new(rows_changed, columns_changed) ==
    [m_init |-> FALSE, m_has_delta |-> FALSE,
     m_rows_changed |-> rows_changed, m_columns_changed |-> columns_changed,
     m_delta_pkeys |-> {}, m_symtable |-> <<>>, aborted |-> FALSE]

init(c) == [c EXCEPT !.m_init = TRUE]

step_begin_keeps_pkeys(c) ==
    IF ~c.m_init THEN c
    ELSE [c EXCEPT !.m_rows_changed = FALSE, !.m_columns_changed = FALSE]

step_begin(c) ==
    IF ~c.m_init THEN c
    ELSE [c EXCEPT !.m_delta_pkeys = {}, !.m_rows_changed = FALSE, !.m_columns_changed = FALSE]

step_end(c) == c

get_row_count_num_columns(g) == gstate_num_columns

get_row_count(g) == gstate_num_rows(g)

get_column_count == gstate_num_columns

has_deltas(c) == c.m_has_delta

get_delta_pkeys(c) == c.m_delta_pkeys

reset_uninitializes(c) == [c EXCEPT !.m_has_delta = FALSE, !.m_init = FALSE]

reset(c) == [c EXCEPT !.m_has_delta = FALSE]

clear_deltas(c) == [c EXCEPT !.m_has_delta = FALSE]

add_delta_pkey_dropped(pkeys, pkey) == pkeys

add_delta_pkey_replaces(pkeys, pkey) == {pkey}

add_delta_pkey(pkeys, pkey) == pkeys \cup {pkey}

\* PSP_COMPLAIN_AND_ABORT: the process ends where it stands
psp_abort(c) == [c EXCEPT !.aborted = TRUE]

get_pkeys_returns_empty(c, cells) == c

\* get_pkeys(cells): PSP_COMPLAIN_AND_ABORT("Not implemented yet")
get_pkeys(c, cells) == psp_abort(c)

\* the declared types of the columns of the schema
schema_dtypes == [pkey |-> "DTYPE_STR", value |-> "DTYPE_INT64"]

schema_has_column(name) == name \in Range(columns)

schema_get_dtype(name) == schema_dtypes[name]

\* the number of values of the unsigned index type, scaled down from 2^64:
\* what matters is that it exceeds every column count
UIndexModulus == 65536

\* a signed index converted to the unsigned index type
to_uindex(idx) == idx % UIndexModulus

get_column_name_signed(idx) ==
    IF idx >= Len(columns) THEN "" ELSE columns[Max(idx, 0) + 1]

\* get_column_name(t_index idx): idx is compared with columns.size() as an
\* unsigned value
get_column_name(idx) ==
    IF to_uindex(idx) >= Len(columns) THEN "" ELSE columns[idx + 1]

\* get_column_dtype(t_uindex idx)
get_column_dtype(idx) ==
    IF idx >= get_column_count THEN "DTYPE_NONE"
    ELSE LET column_name == get_column_name(idx)
         IN IF ~schema_has_column(column_name) THEN "DTYPE_NONE"
            ELSE schema_get_dtype(column_name)

switch_op_default_falls_through(op) ==
    CASE op = OP_INSERT -> "break"
      [] op = OP_DELETE -> "delete"
      [] OTHER -> "break"

\* the switch of the rich notify: the branch a row's tag takes
switch_op(op) ==
    CASE op = OP_INSERT -> "break"
      [] op = OP_DELETE -> "delete"
      [] OTHER -> "abort"

\* one turn of the loop of the rich notify, on row idx (1-based here):
\* n is [c, delete_encountered]
notify_row(n, row) ==
    LET pkey == get_interned_tscalar(n.c.m_symtable, row.pkey)
        c1 == [n.c EXCEPT !.m_symtable = symtable_after(@, row.pkey)]
        branch == switch_op(row.op)
    IN IF branch = "abort"
       THEN [c |-> psp_abort(c1), delete_encountered |-> n.delete_encountered]
       ELSE [c |-> [c1 EXCEPT !.m_delta_pkeys = add_delta_pkey(@, pkey)],
             delete_encountered |-> n.delete_encountered \/ branch = "delete"]

RECURSIVE notify_loop(_, _, _)
notify_loop(n, flattened, idx) ==
    IF idx > Len(flattened) \/ n.c.aborted THEN n
    ELSE notify_loop(notify_row(n, flattened[idx]), flattened, idx + 1)

notify_has_delta_flag_kept(c, delete_encountered) == c.m_has_delta

\* the value the rich notify leaves in m_has_delta
notify_has_delta(c, delete_encountered) ==
    Cardinality(c.m_delta_pkeys) > 0 \/ delete_encountered

\* notify(flattened, delta, prev, curr, transitions, existed)
notify_rich(c, flattened) ==
    LET n == notify_loop([c |-> c, delete_encountered |-> FALSE], flattened, 1)
    IN IF n.c.aborted THEN n.c
       ELSE [n.c EXCEPT !.m_has_delta = notify_has_delta(n.c, n.delete_encountered)]

\* one turn of the loop of the simple notify
notify_simple_row(c, row) ==
    LET pkey == get_interned_tscalar(c.m_symtable, row.pkey)
    IN [c EXCEPT !.m_symtable = symtable_after(@, row.pkey),
                 !.m_delta_pkeys = add_delta_pkey(@, pkey)]

RECURSIVE notify_simple_loop(_, _, _)
notify_simple_loop(c, flattened, idx) ==
    IF idx > Len(flattened) THEN c
    ELSE notify_simple_loop(notify_simple_row(c, flattened[idx]), flattened, idx + 1)

notify_simple_has_delta_if_rows(flattened) == Len(flattened) > 0

\* the value the simple notify stores in m_has_delta before its loop
notify_simple_has_delta(flattened) == TRUE

\* notify(flattened)
notify_simple(c, flattened) ==
    notify_simple_loop([c EXCEPT !.m_has_delta = notify_simple_has_delta(flattened)], flattened, 1)


(***************************************************************************)
(* get_data.  Each overload returns the block it builds together with what *)
(* it asked of the master state: read_reqs, the row ranges handed to       *)
(* read_column, and oob, whether a request reaches outside the table.      *)
(***************************************************************************)
\* the extents narrowed to the current bounds
sanitize_get_data_extents(nrows, ncols, start_row, end_row, start_col, end_col) ==
    LET srow == Max(0, Min(start_row, nrows))
        erow == Max(srow, Max(0, Min(end_row, nrows)))
        scol == Max(0, Min(start_col, ncols))
        ecol == Max(scol, Max(0, Min(end_col, ncols)))
    IN [m_srow |-> srow, m_erow |-> erow, m_scol |-> scol, m_ecol |-> ecol]

normalize_cell_kept_raw(v) == v

\* if (!v.is_valid()) v.set(none)
normalize_cell(v) == IF ~is_valid(v) THEN mknone ELSE v

\* the row range the range overload hands to read_column
read_column_request(ext, start_row, end_row) == <<start_row, end_row>>

\* whether a read of rows start..end-1 reaches outside a table of nrows rows
reads_outside(nrows, start_idx, end_idx) ==
    end_idx - start_idx > 0 /\ (start_idx < 0 \/ end_idx > nrows)

\* element i (0-based) of a vector; past its end, whatever lies there
vector_at(vec, i, garbage) == IF i >= 0 /\ i < Len(vec) THEN vec[i + 1] ELSE garbage

\* get_data(start_row, end_row, start_col, end_col)
get_data_range(g, start_row, end_row, start_col, end_col, garbage) ==
    LET ctx_nrows == get_row_count(g)
        ctx_ncols == get_column_count
        ext == sanitize_get_data_extents(ctx_nrows, ctx_ncols, start_row, end_row, start_col, end_col)
        num_rows == ext.m_erow - ext.m_srow
        stride == ext.m_ecol - ext.m_scol
        req == read_column_request(ext, start_row, end_row)
        out_data(cidx) == read_column_range(g, columns[cidx + 1], req[1], req[2],
                                            [j \in 1..num_rows |-> t_tscalar_default], garbage)
    IN [values |-> [i \in 1..(num_rows * stride) |->
                      LET r == (i - 1) \div stride
                          cidx == ext.m_scol + ((i - 1) % stride)
                      IN normalize_cell(vector_at(out_data(cidx), r, garbage))],
        num_rows |-> num_rows, stride |-> stride, ext |-> ext,
        read_reqs |-> IF stride > 0 THEN {req} ELSE {},
        oob |-> stride > 0 /\ reads_outside(ctx_nrows, req[1], req[2])]

\* get_data(rows): rows are unsigned indices, used as given
get_data_rows(g, rows, garbage) ==
    LET stride == get_column_count
        out_data(cidx) == read_column_rows(g, columns[cidx + 1], rows, garbage)
    IN [values |-> [i \in 1..(Len(rows) * stride) |->
                      LET ridx == (i - 1) \div stride
                          cidx == (i - 1) % stride
                      IN normalize_cell(out_data(cidx)[ridx + 1])],
        num_rows |-> Len(rows), stride |-> stride,
        ext |-> sanitize_get_data_extents(0, 0, 0, 0, 0, 0),
        read_reqs |-> {},
        oob |-> \E j \in 1..Len(rows) : rows[j] >= get_row_count(g)]

\* get_data(pkeys): pkeys are key values
get_data_pkeys(g, pkeys) ==
    LET stride == get_column_count
        out_data(cidx) == read_column_pkeys(g, columns[cidx + 1], pkeys,
                                            [j \in 1..Len(pkeys) |-> t_tscalar_default])
    IN [values |-> [i \in 1..(Len(pkeys) * stride) |->
                      LET ridx == (i - 1) \div stride
                          cidx == (i - 1) % stride
                      IN normalize_cell(out_data(cidx)[ridx + 1])],
        num_rows |-> Len(pkeys), stride |-> stride,
        ext |-> sanitize_get_data_extents(0, 0, 0, 0, 0, 0),
        read_reqs |-> {},
        oob |-> FALSE]

(***************************************************************************)
(* get_row_delta.  pkey_vector is the copy of the Delta Key Set, in the    *)
(* order the set happens to enumerate its handles.                         *)
(***************************************************************************)
t_rowdelta(rows_changed, num_rows, data) ==
    [rows_changed |-> rows_changed, num_rows |-> num_rows, data |-> data]

\* the t_rowdelta get_row_delta builds from its snapshot
get_row_delta_rval(c, g, pkey_vector) ==
    LET rows_changed == c.m_rows_changed
        data == get_data_pkeys(g, [j \in 1..Len(pkey_vector) |-> handle_value(c.m_symtable, pkey_vector[j])])
    IN t_rowdelta(rows_changed, Len(pkey_vector), data.values)

\* the context get_row_delta leaves behind
get_row_delta(c) == clear_deltas(c)


(***************************************************************************)
(* Master state updates: a batch is a sequence of Operation Rows, applied  *)
(* in order.                                                               *)
(***************************************************************************)
OperationRows(upserts, cells) ==
    {[pkey |-> k, op |-> o, value |-> v] : k \in Keys, o \in upserts, v \in cells}
    \cup {[pkey |-> k, op |-> OP_DELETE, value |-> mknull("DTYPE_INT64")] : k \in Keys}

gstate_apply_row(g, row) ==
    IF row.op = OP_DELETE
    THEN SelectSeq(g, LAMBDA r : r.pkey # row.pkey)
    ELSE IF gstate_has_pkey(g, row.pkey)
         THEN [i \in 1..Len(g) |-> IF g[i].pkey = row.pkey THEN [pkey |-> row.pkey, value |-> row.value] ELSE g[i]]
         ELSE Append(g, [pkey |-> row.pkey, value |-> row.value])

RECURSIVE gstate_update(_, _)
gstate_update(g, batch) ==
    IF batch = <<>> THEN g
    ELSE gstate_update(gstate_apply_row(g, Head(batch)), Tail(batch))

(***************************************************************************)
(* websocket.js.  JavaScript values: a number, NaN, undefined and null are *)
(* told apart, because the handlers test them for truthiness and with ===. *)
(***************************************************************************)
undefined == [t |-> "undefined"]

null == [t |-> "null"]

NaN == [t |-> "NaN"]

num(n) == [t |-> "number", v |-> n]

\* the value of x in a condition: if (x)
truthy(x) ==
    CASE x.t \in {"undefined", "null", "NaN"} -> FALSE
      [] x.t = "number" -> x.v # 0
      [] x.t = "string" -> x.v # ""
      [] OTHER -> TRUE

\* a + b on numbers; undefined and NaN make the sum NaN
js_add(a, b) == IF a.t = "number" /\ b.t = "number" THEN num(a.v + b.v) ELSE NaN

\* a === b
strict_eq(a, b) == a.t # "NaN" /\ b.t # "NaN" /\ a = b

\* the bytes a binary is made of
Bytes == {0, 1}

ArrayBuffer(bytes) == [t |-> "ArrayBuffer", bytes |-> bytes]

\* a JavaScript array
array(items) == [t |-> "array", items |-> items]

\* new Uint8Array(length): length bytes, all zero
Uint8Array(length) == [t |-> "Uint8Array", bytes |-> [i \in 1..length |-> 0]]

\* what travels over a socket: a string ("ping", "pong" or the text of a
\* JSON value, kept here as the value it denotes) or a binary
WireString(text) == [kind |-> "string", text |-> text, json |-> undefined, bytes |-> <<>>]

WireJson(json) == [kind |-> "string", text |-> "json", json |-> json, bytes |-> <<>>]

WireBinary(bytes) == [kind |-> "binary", text |-> "", json |-> undefined, bytes |-> bytes]

\* JSON.parse(data): the value of a JSON text; anything else (a binary, the
\* strings "ping" and "pong") is a SyntaxError
JSON_parse(data) ==
    IF data.kind = "string" /\ data.text = "json"
    THEN [ok |-> TRUE, value |-> data.json]
    ELSE [ok |-> FALSE, value |-> undefined]

\* new Uint8Array(data) of a received message: the bytes of a binary; for a
\* string the length is ToIndex of a string that is no number, which is 0
Uint8Array_from(data) == IF data.kind = "binary" THEN data.bytes ELSE <<>>

\* data.byteLength: undefined for a string
byteLength(data) == IF data.kind = "binary" THEN num(Len(data.bytes)) ELSE undefined

\* the offset TypedArray.prototype.set makes of its second argument
set_offset(offset) == IF offset.t = "number" THEN offset.v ELSE 0

\* target.set(source, offset) fits when the source ends inside the target
set_fits(target, source, offset) == set_offset(offset) + Len(source) <= Len(target.bytes)

\* the target after target.set(source, offset)
typed_array_set(target, source, offset) ==
    [target EXCEPT !.bytes = [i \in 1..Len(target.bytes) |->
        IF i > set_offset(offset) /\ i <= set_offset(offset) + Len(source)
        THEN source[i - set_offset(offset)]
        ELSE target.bytes[i]]]

\* new WebSocketClient(ws): the object after its constructor.  handled is
\* what the last message handed to _handle and threw the exception it
\* ended in; pre, rcvd and
\* delivered follow the transfer in progress: its pre-message, the bytes of
\* the binary messages received since and the calls of _handle since; pongs
\* counts the pongs received
WebSocketClient_new ==
    [_full_binary |-> undefined,
     _total_chunk_length |-> num(0),
     _pending_binary_length |-> num(0),
     _pending_binary |-> undefined,
     _pending_port_id |-> undefined,
     handled |-> <<>>, threw |-> "none",
     pre |-> undefined, rcvd |-> <<>>, delivered |-> <<>>, pongs |-> 0]

reset_flags_keeps_port_id(c) ==
    [c EXCEPT !._pending_binary = undefined, !._pending_binary_length = undefined,
              !._total_chunk_length = num(0), !._full_binary = null]

\* the reset at the end of a transfer: lines 86-91
reset_flags(c) ==
    [c EXCEPT !._pending_binary = undefined, !._pending_binary_length = undefined,
              !._pending_port_id = undefined, !._total_chunk_length = num(0),
              !._full_binary = null]

\* the argument of _handle for a reassembled binary: lines 65-80
joined_result(c, binary_msg) ==
    [id |-> c._pending_binary,
     data |-> IF c._pending_port_id # undefined
              THEN [t |-> "object", port_id |-> c._pending_port_id, delta |-> binary_msg]
              ELSE binary_msg]

\* the test that sends a message into the chunk branch: line 44
client_is_pending(c) == truthy(c._pending_binary)

\* the test that ends the wait for chunks: line 56
chunking_complete(c) == strict_eq(c._total_chunk_length, c._pending_binary_length)

\* the chunk branch of onmessage: lines 44-91
onmessage_chunk(c, data) ==
    IF ~set_fits(c._full_binary, Uint8Array_from(data), c._total_chunk_length)
    THEN [c EXCEPT !.threw = "RangeError", !.handled = <<>>]
    ELSE LET c1 == [c EXCEPT !._full_binary = typed_array_set(@, Uint8Array_from(data),
                                                                 c._total_chunk_length),
                             !._total_chunk_length = js_add(@, byteLength(data)),
                             !.threw = "none", !.handled = <<>>]
         IN IF chunking_complete(c1)
            THEN [reset_flags(c1) EXCEPT
                    !.handled = <<joined_result(c1, ArrayBuffer(c1._full_binary.bytes))>>]
            ELSE c1

\* the test for a pre-message: line 99
announces_binary(msg) == truthy(msg.binary_length)

\* the JSON branch of onmessage: lines 93-118
onmessage_json(c, data) ==
    LET parsed == JSON_parse(data)
        msg == parsed.value
    IN IF ~parsed.ok THEN [c EXCEPT !.threw = "SyntaxError", !.handled = <<>>]
       ELSE IF announces_binary(msg)
            THEN [c EXCEPT !._pending_binary = msg.id,
                           !._pending_binary_length = msg.binary_length,
                           !._pending_port_id =
                               IF truthy(msg.data) /\ msg.data.port_id # undefined
                               THEN msg.data.port_id ELSE @,
                           !._full_binary = Uint8Array(msg.binary_length.v),
                           !.threw = "none", !.handled = <<>>]
            ELSE [c EXCEPT !.threw = "none", !.handled = <<msg>>]

is_pong_never(data) == FALSE

\* msg.data === "pong": line 40
is_pong(data) == data.kind = "string" /\ data.text = "pong"

\* this._ws.onmessage: lines 39-120
onmessage(c, data) ==
    IF is_pong(data) THEN [c EXCEPT !.threw = "none", !.handled = <<>>]
    ELSE IF client_is_pending(c) THEN onmessage_chunk(c, data)
    ELSE onmessage_json(c, data)

\* the wire form JSON.stringify gives a message: an ArrayBuffer among the
\* args becomes an empty object
JSON_stringify(msg) ==
    IF msg.args = undefined THEN msg
    ELSE [msg EXCEPT !.args = array([i \in 1..Len(msg.args.items) |->
            IF msg.args.items[i].t = "ArrayBuffer" THEN [t |-> "object"] ELSE msg.args.items[i]])]

\* the test of send for a binary first argument: line 135
sends_binary(msg) ==
    /\ truthy(msg.args)
    /\ Len(msg.args.items) > 0
    /\ msg.args.items[1].t = "ArrayBuffer"

\* send(msg): the messages handed to this._ws.send, in order; lines 134-143
send(msg) ==
    IF sends_binary(msg)
    THEN LET pre_msg == [msg EXCEPT !.binary_length = num(Len(msg.args.items[1].bytes))]
         IN <<WireJson(JSON_stringify(pre_msg)), WireBinary(msg.args.items[1].bytes)>>
    ELSE <<WireJson(JSON_stringify(msg))>>

(***************************************************************************)
(* WebSocketManager.  Objects used as maps (requests, _tables, _views) and *)
(* the Map requests_id_map are functions from their keys.                  *)
(***************************************************************************)
EmptyMap == [k \in {} |-> undefined]

map_has(m, k) == k \in DOMAIN m

\* m[k], undefined for a key that is not there
map_get(m, k) == IF k \in DOMAIN m THEN m[k] ELSE undefined

map_set(m, k, v) == [x \in DOMAIN m \cup {k} |-> IF x = k THEN v ELSE m[x]]

map_delete(m, k) == [x \in DOMAIN m \ {k} |-> m[x]]

\* m[k] of a map of lists, empty for a key that is not there
map_get_seq(m, k) == IF k \in DOMAIN m THEN m[k] ELSE <<>>

\* String(x) of a message id
to_string(x) == IF x.t = "number" THEN ToString(x.v) ELSE x.t

\* `${msg.id}/${ws.id}`
compound_id(id, ws_id) == to_string(id) \o "/" \o ToString(ws_id)

\* the readyState values of a socket
OPEN == 1

CLOSED == 3

\* new WebSocketManager(): the object after its constructor, with the
\* module's connection id generator CLIENT_ID_GEN, the sockets handed to
\* add_connection (what each is still to receive and what it was asked to
\* send), the _post_chunked callbacks the timers hold, the on_delete
\* callbacks the hosted objects hold, and the record of the run: the calls
\* of process, of post and of the peers' send, the objects deleted, the last
\* call of _host, the exception the last handler ended in
WebSocketManager_new ==
    [requests_id_map |-> EmptyMap,
     requests |-> EmptyMap,
     websockets |-> EmptyMap,
     chunk_size |-> ChunkSize,
     _pending_binary |-> undefined,
     _tables |-> EmptyMap,
     _views |-> EmptyMap,
     CLIENT_ID_GEN |-> 0,
     sockets |-> EmptyMap,
     timers |-> <<>>,
     on_delete |-> EmptyMap,
     processed |-> <<>>,
     posts |-> <<>>,
     sends |-> <<>>,
     deleted |-> {},
     hosted |-> undefined,
     threw |-> "none"]

\* add_connection(ws): lines 190-194; the handlers it installs follow.  idle
\* counts the sweeps a socket has seen since its last message, up to 2
add_connection(m) ==
    [m EXCEPT !.sockets = map_set(@, m.CLIENT_ID_GEN,
                                  [isAlive |-> TRUE, readyState |-> OPEN, inbox |-> <<>>, sent |-> <<>>,
                                   idle |-> 0]),
              !.CLIENT_ID_GEN = @ + 1,
              !.threw = "none"]

\* ws.send(data) on the socket of connection w; post names the call of post
\* the message belongs to (0: none)
ws_send(m, w, data, post) ==
    [m EXCEPT !.sockets = map_set(@, w, [m.sockets[w] EXCEPT !.sent = Append(@, [data |-> data, post |-> post])])]

\* a received message as the value the handler holds
received_value(data) ==
    IF data.kind = "binary" THEN ArrayBuffer(data.bytes) ELSE [t |-> "string", wire |-> data]

\* lines 229-242: the request is entered under its compound id and handed
\* to process
dispatch(m, w, msg, from) ==
    LET compoundId == compound_id(msg.id, w)
        msg1 == [msg EXCEPT !.id = [t |-> "string", v |-> compoundId]]
    IN [m EXCEPT !.requests_id_map = map_set(@, compoundId, msg.id),
                 !.requests = map_set(@, compoundId, [ws |-> w, msg |-> msg1]),
                 !.processed = Append(@, [msg |-> msg1, client_id |-> w, from |-> from])]

\* lines 208-219: the binary is put in front of the arguments of the pending
\* message
combine_binary(pending, binary) ==
    [pending EXCEPT
        !.args = array(<<binary>> \o
                       (IF truthy(pending.args) /\ Len(pending.args.items) > 1
                        THEN Tail(pending.args.items) ELSE <<>>)),
        !.binary_length = undefined]

\* the test for a pending pre-message: line 204
manager_is_pending(m) == m._pending_binary # undefined

\* the "message" handler of connection w: lines 196-243; from names the call
\* of send the message came from
on_message(m, w, data, from) ==
    LET m1 == [m EXCEPT !.sockets = map_set(@, w, [m.sockets[w] EXCEPT !.isAlive = TRUE, !.idle = 0]),
                        !.threw = "none"]
    IN IF data.kind = "string" /\ data.text = "ping" THEN ws_send(m1, w, WireString("pong"), 0)
       ELSE IF manager_is_pending(m1)
            THEN dispatch([m1 EXCEPT !._pending_binary = undefined], w,
                          combine_binary(m1._pending_binary, received_value(data)), from)
            ELSE LET parsed == JSON_parse(data)
                 IN IF ~parsed.ok THEN [m1 EXCEPT !.threw = "SyntaxError"]
                    ELSE IF announces_binary(parsed.value)
                         THEN [m1 EXCEPT !._pending_binary = parsed.value]
                         ELSE dispatch(m1, w, parsed.value, from)

\* ws.terminate()
terminate(m, w) == [m EXCEPT !.sockets = map_set(@, w, [m.sockets[w] EXCEPT !.readyState = CLOSED])]

\* the sweep on one entry of this.websockets: lines 169-173
sweep_entry_keeps(m, id) ==
    [m EXCEPT !.sockets = map_set(@, m.websockets[id], [m.sockets[m.websockets[id]] EXCEPT !.isAlive = FALSE])]

sweep_entry(m, id) ==
    IF m.sockets[m.websockets[id]].isAlive = FALSE
    THEN terminate([m EXCEPT !.websockets = map_delete(@, id)], m.websockets[id])
    ELSE sweep_entry_keeps(m, id)

\* the callback of setInterval: lines 167-175, over the entries ids
RECURSIVE sweep(_, _)
sweep(m, ids) ==
    IF ids = {} THEN m
    ELSE LET id == CHOOSE x \in ids : TRUE
         IN sweep(sweep_entry(m, id), ids \ {id})

\* binary.slice(start, end)
js_slice(binary, start, end) == SubSeq(binary, Min(start, Len(binary)) + 1, Min(end, Len(binary)))

chunk_slice_to_end(binary, start, end) == js_slice(binary, start, Len(binary))

\* the chunk _post_chunked sends: line 298
chunk_slice(binary, start, end) == js_slice(binary, start, end)

\* _post_chunked(request, binary, start, end, length): lines 294-304; t holds
\* the arguments; the callback handed to setTimeout joins the timers
post_chunked(m, t) ==
    IF t.start < t.length
    THEN LET end0 == t.start + m.chunk_size
             end == IF end0 > t.length THEN t.length ELSE end0
             m1 == ws_send(m, t.request.ws, WireBinary(chunk_slice(t.binary, t.start, end)), t.post)
         IN [m1 EXCEPT !.timers = Append(@, [t EXCEPT !.start = end, !.end = end])]
    ELSE m

forget_request_keeps_id_map(m, id) == [m EXCEPT !.requests = map_delete(@, id)]

\* the entries of an answered request are dropped: lines 280-281
forget_request(m, id) ==
    [m EXCEPT !.requests_id_map = map_delete(@, id),
              !.requests = map_delete(@, id)]

\* post(msg, transferable): lines 263-283; n counts the calls of post
post(m, msg, transferable, n) ==
    LET id == msg.id.v
        called == [id |-> id, transferable |-> transferable, ws |-> -1, threw |-> "none"]
    IN IF ~map_has(m.requests, id)
       THEN [m EXCEPT !.threw = "TypeError", !.posts = Append(@, [called EXCEPT !.threw = "TypeError"])]
       ELSE LET req == m.requests[id]
            IN IF m.sockets[req.ws].readyState > 1
               THEN [m EXCEPT !.requests = map_delete(@, id),
                              !.threw = "Connection closed",
                              !.posts = Append(@, [called EXCEPT !.ws = req.ws, !.threw = "Connection closed"])]
               ELSE LET msg1 == [msg EXCEPT !.id = map_get(m.requests_id_map, id)]
                        m0 == [m EXCEPT !.threw = "none", !.posts = Append(@, [called EXCEPT !.ws = req.ws])]
                        m1 == IF transferable # undefined
                              THEN LET binary_msg == transferable.items[1].bytes
                                       msg2 == [msg1 EXCEPT !.binary_length = num(Len(binary_msg))]
                                   IN post_chunked(ws_send(m0, req.ws, WireJson(msg2), n),
                                                   [request |-> req, binary |-> binary_msg, start |-> 0,
                                                    end |-> m.chunk_size, length |-> Len(binary_msg),
                                                    post |-> n])
                              ELSE ws_send(m0, req.ws, WireJson(msg1), n)
                    IN IF ~truthy(req.msg.subscribe)
                       THEN forget_request(m1, id)
                       ELSE m1

\* the message of the error _host throws
already_exists(name) == "\"" \o name \o "\" already exists"

host_overwrites(m, cache, name, input) ==
    [m EXCEPT ![cache] = map_set(@, name, input),
              !.on_delete = map_set(@, input, Append(map_get_seq(m.on_delete, input),
                                                     [cache |-> cache, name |-> name])),
              !.threw = "none",
              !.hosted = [cache |-> cache, name |-> name, input |-> input,
                          pre_tables |-> m._tables, pre_views |-> m._views,
                          pre_on_delete |-> m.on_delete]]

\* _host(cache, name, input): lines 306-314; cache is "_tables" or "_views"
host(m, cache, name, input) ==
    IF map_has(m[cache], name)
    THEN [m EXCEPT !.threw = already_exists(name),
                   !.hosted = [cache |-> cache, name |-> name, input |-> input,
                               pre_tables |-> m._tables, pre_views |-> m._views,
                               pre_on_delete |-> m.on_delete]]
    ELSE host_overwrites(m, cache, name, input)

\* eject_table(name), eject_view(name): lines 346-358
eject(m, cache, name) == [m EXCEPT ![cache] = map_delete(@, name), !.threw = "none", !.hosted = undefined]

\* one callback registered by _host: delete cache[name], lines 310-312
run_on_delete(m, cb) == [m EXCEPT ![cb.cache] = map_delete(@, cb.name)]

RECURSIVE run_callbacks(_, _)
run_callbacks(m, cbs) ==
    IF cbs = <<>> THEN m ELSE run_callbacks(run_on_delete(m, Head(cbs)), Tail(cbs))


(***************************************************************************)
(* Calls.  last records the call that has just returned: its name, its     *)
(* arguments (for notify, the flattened table), the context it started     *)
(* from, the copy of the Delta Key Set it made and what it returned.       *)
(***************************************************************************)
NoRet == [void |-> TRUE]

Call(op, args, pre, pkey_vector, ret) ==
    [op |-> op, args |-> args, pre |-> pre, pkey_vector |-> pkey_vector, ret |-> ret]

NoCall == Call("none", <<>>, ctx_new(FALSE, FALSE), <<>>, NoRet)

\* the rows of a flattened table, as notify reads them: psp_pkey and psp_op
FlatRows == [pkey : Keys, op : Ops]

FlatTables == SeqsUpTo(FlatRows, MaxBatch)

\* the stage of the concrete scenario a run has reached: 1 and 2 after its
\* first and second batch, 3 and 4 after the two reads that follow; 0 when
\* the run is not (or no longer) that scenario
ScenarioAfterRead(stage) == IF stage \in {2, 3} THEN stage + 1 ELSE 0

\* the two threads of the interleaved specification at rest: the reader (in
\* get_row_delta) and the writer (in notify)
ConcIdle ==
    [gpc |-> "idle", g_rows_changed |-> FALSE, g_pkey_vector |-> <<>>, g_data |-> <<>>,
     npc |-> "idle", n_kind |-> "none", n_flattened |-> <<>>, n_idx |-> 0,
     n_delete_encountered |-> FALSE,
     added |-> {}, delivered |-> {}, twice |-> {}]

\* a notify reaches add_delta_pkey for its first row: the rich one when the
\* switch knows the row's tag, the simple one always
rich_tracks(flattened) == flattened # <<>> /\ flattened[1].op \in {OP_INSERT, OP_DELETE}

simple_tracks(flattened) == flattened # <<>>

Init ==
    /\ \E rc \in BOOLEAN, cc \in BOOLEAN : ctx = ctx_new(rc, cc)
    /\ m_gstate = <<>>
    /\ last = NoCall
    /\ streak = 0
    /\ scn = 0
    /\ conc = ConcIdle
    /\ inserted = {}
    /\ tracked = FALSE
    /\ wsclient = WebSocketClient_new
    /\ wsmanager = WebSocketManager_new

\* a call can start when the process lives and the caller holds no result
Callable == last = NoCall /\ ~ctx.aborted

CtxInit ==
    /\ Callable
    /\ ctx' = init(ctx)
    /\ last' = Call("init", <<>>, ctx, <<>>, NoRet)
    /\ streak' = 0
    /\ UNCHANGED <<m_gstate, scn, conc, inserted, tracked, ws_vars>>

StepBegin ==
    /\ Callable
    /\ ctx' = step_begin(ctx)
    /\ last' = Call("step_begin", <<>>, ctx, <<>>, NoRet)
    /\ streak' = 0
    /\ tracked' = FALSE
    /\ UNCHANGED <<m_gstate, scn, conc, inserted, ws_vars>>

StepEnd ==
    /\ Callable
    /\ ctx' = step_end(ctx)
    /\ last' = Call("step_end", <<>>, ctx, <<>>, NoRet)
    /\ streak' = 0
    /\ UNCHANGED <<m_gstate, scn, conc, inserted, tracked, ws_vars>>

NotifyRich ==
    /\ Callable
    /\ \E flattened \in FlatTables :
        /\ ctx' = notify_rich(ctx, flattened)
        /\ last' = Call("notify_rich", flattened, ctx, <<>>, NoRet)
        /\ tracked' = (tracked \/ rich_tracks(flattened))
    /\ streak' = 0
    /\ UNCHANGED <<m_gstate, scn, conc, inserted, ws_vars>>

NotifySimple ==
    /\ Callable
    /\ \E flattened \in FlatTables :
        /\ ctx' = notify_simple(ctx, flattened)
        /\ last' = Call("notify_simple", flattened, ctx, <<>>, NoRet)
        /\ tracked' = (tracked \/ simple_tracks(flattened))
    /\ streak' = 0
    /\ UNCHANGED <<m_gstate, scn, conc, inserted, ws_vars>>

GetRowDelta ==
    /\ Callable
    /\ \E pkey_vector \in Orderings(get_delta_pkeys(ctx)) :
        last' = Call("get_row_delta", <<>>, ctx, pkey_vector,
                     get_row_delta_rval(ctx, m_gstate, pkey_vector))
    /\ ctx' = get_row_delta(ctx)
    /\ streak' = Min(streak + 1, 2)
    /\ scn' = ScenarioAfterRead(scn)
    /\ UNCHANGED <<m_gstate, conc, inserted, tracked, ws_vars>>

Reset ==
    /\ Callable
    /\ ctx' = reset(ctx)
    /\ last' = Call("reset", <<>>, ctx, <<>>, NoRet)
    /\ streak' = 0
    /\ UNCHANGED <<m_gstate, scn, conc, inserted, tracked, ws_vars>>

\* the caller takes the result; the next call can start
Return ==
    /\ last # NoCall
    /\ ~ctx.aborted
    /\ last' = NoCall
    /\ UNCHANGED <<ctx, m_gstate, streak, scn, conc, inserted, tracked, ws_vars>>

Next ==
    \/ CtxInit
    \/ StepBegin
    \/ StepEnd
    \/ NotifyRich
    \/ NotifySimple
    \/ GetRowDelta
    \/ Reset
    \/ Return

Spec == Init /\ [][Next]_vars


(***************************************************************************)
(* Helpers of the properties.                                              *)
(***************************************************************************)
\* the handle under which the context tracks key k
HandleOf(c, k) == IndexOf(c.m_symtable, k)

\* the handles of rows 1..n of a flattened table
HandlesOfRows(c, flattened, n) == {HandleOf(c, flattened[j].pkey) : j \in 1..n}

\* the first n rows carry tags the switch of notify has a case for
SwitchKnows(flattened, n) == \A j \in 1..n : flattened[j].op \in {OP_INSERT, OP_DELETE}

JustReturned(op) == last.op = op

(***************************************************************************)
(* C1: after get_row_delta() returns, has_deltas() is false and the Delta  *)
(* Key Set is empty, whatever notify calls preceded it.                    *)
(* The code clears the flag only: clear_deltas leaves m_delta_pkeys alone. *)
(***************************************************************************)
C1_DeltaSetClearedOnRead ==
    JustReturned("get_row_delta") => (~has_deltas(ctx) /\ get_delta_pkeys(ctx) = {})

(***************************************************************************)
(* C2: the second of two get_row_delta() calls in succession, with no      *)
(* notify between them, returns an empty delta: zero rows and              *)
(* rows_changed = false.  Stated for the calls that start with            *)
(* m_rows_changed false, so that only the rows returned can differ.        *)
(***************************************************************************)
C2_SecondReadEmpty ==
    (JustReturned("get_row_delta") /\ streak = 2 /\ ~last.pre.m_rows_changed)
        => (last.ret.num_rows = 0 /\ last.ret.rows_changed = FALSE)

(***************************************************************************)
(* C4: after the rich notify has processed a table that holds at least one *)
(* DELETE-tagged row, has_deltas() is true, whatever the flag and the      *)
(* Delta Key Set were before.                                              *)
(***************************************************************************)
C4_DeleteForcesHasDelta ==
    (/\ JustReturned("notify_rich")
     /\ \E i \in 1..Len(last.args) : last.args[i].op = OP_DELETE
     /\ SwitchKnows(last.args, Len(last.args)))
        => (~ctx.aborted /\ has_deltas(ctx))

\* a DELETE of a key never interned, into a context with nothing tracked
C4_Witness ==
    /\ JustReturned("notify_rich")
    /\ Len(last.args) = 1
    /\ last.args[1].op = OP_DELETE
    /\ last.pre.m_symtable = <<>>
    /\ last.pre.m_delta_pkeys = {}
    /\ ~last.pre.m_has_delta
    /\ has_deltas(ctx)

(***************************************************************************)
(* C5: after the simple notify, has_deltas() is true (also for a table     *)
(* without rows) and the Delta Key Set holds the interned key of every row *)
(* of the table besides the keys it held before.                           *)
(***************************************************************************)
C5_SimpleNotifyTracksAll ==
    JustReturned("notify_simple") =>
        /\ has_deltas(ctx)
        /\ last.pre.m_delta_pkeys \subseteq get_delta_pkeys(ctx)
        /\ SubSeq(ctx.m_symtable, 1, Len(last.pre.m_symtable)) = last.pre.m_symtable
        /\ \A i \in 1..Len(last.args) :
              /\ is_interned(ctx.m_symtable, last.args[i].pkey)
              /\ HandleOf(ctx, last.args[i].pkey) \in get_delta_pkeys(ctx)

\* a table without rows raises the flag; the keys tracked before stay
C5_Witness ==
    /\ JustReturned("notify_simple")
    /\ last.args = <<>>
    /\ ~last.pre.m_has_delta
    /\ last.pre.m_delta_pkeys # {}
    /\ has_deltas(ctx)
    /\ get_delta_pkeys(ctx) = last.pre.m_delta_pkeys

C7_UnknownTagAborts ==
    JustReturned("notify_rich") =>
        \A i \in 1..Len(last.args) :
            (SwitchKnows(last.args, i - 1) /\ last.args[i].op \notin {OP_INSERT, OP_DELETE}) =>
                /\ ctx.aborted
                /\ get_delta_pkeys(ctx) = last.pre.m_delta_pkeys \cup HandlesOfRows(ctx, last.args, i - 1)
                /\ has_deltas(ctx) = last.pre.m_has_delta
                /\ Range(ctx.m_symtable) = Range(last.pre.m_symtable) \cup {last.args[j].pkey : j \in 1..i}

\* an unknown tag on the first row, a row of another key behind it, and a
\* flag that a completed call would have changed
C7_Witness ==
    /\ JustReturned("notify_rich")
    /\ Len(last.args) = 2
    /\ last.args[1].op = OP_UNKNOWN
    /\ last.args[2].op = OP_INSERT
    /\ last.args[1].pkey # last.args[2].pkey
    /\ last.pre.m_delta_pkeys = {}
    /\ ~last.pre.m_has_delta
    /\ ctx.aborted
    /\ get_delta_pkeys(ctx) = {}
    /\ ~has_deltas(ctx)

(***************************************************************************)
(* C12: the Delta Key Set holds each key at most once.  After a notify the *)
(* set is the set before it together with the handles of the rows, in      *)
(* whatever order and however often the rows name a key, and no two        *)
(* handles of the set stand for one key; get_row_delta returns one row for *)
(* each handle of the set, each handle once.                               *)
(***************************************************************************)
C12_DeltaKeySetHoldsKeysOnce ==
    /\ (last.op \in {"notify_rich", "notify_simple"} /\ ~ctx.aborted) =>
          /\ get_delta_pkeys(ctx) =
                last.pre.m_delta_pkeys \cup HandlesOfRows(ctx, last.args, Len(last.args))
          /\ \A h1 \in get_delta_pkeys(ctx), h2 \in get_delta_pkeys(ctx) :
                handle_value(ctx.m_symtable, h1) = handle_value(ctx.m_symtable, h2) => h1 = h2
    /\ JustReturned("get_row_delta") =>
          /\ Range(last.pkey_vector) = last.pre.m_delta_pkeys
          /\ Len(last.pkey_vector) = Cardinality(last.pre.m_delta_pkeys)
          /\ last.ret.num_rows =
                Cardinality({handle_value(ctx.m_symtable, h) : h \in last.pre.m_delta_pkeys})
          /\ Len(last.ret.data) = last.ret.num_rows * get_column_count

\* a notify that names twice a key the set already holds, besides another
C12_Witness ==
    /\ JustReturned("notify_rich")
    /\ ~ctx.aborted
    /\ Len(last.args) = 2
    /\ last.args[1].pkey = last.args[2].pkey
    /\ Cardinality(last.pre.m_delta_pkeys) = 2
    /\ get_delta_pkeys(ctx) = last.pre.m_delta_pkeys

(***************************************************************************)
(* C14: step_begin() on an initialized context empties the Delta Key Set   *)
(* and sets the rows-changed and columns-changed flags to false, leaving   *)
(* the rest of the context alone; on a context that is not initialized it  *)
(* changes nothing.  The set grows by notify only, so a get_row_delta      *)
(* returns no key tracked before the last such step_begin.                 *)
(***************************************************************************)
C14_StepBeginClearsCycle ==
    /\ JustReturned("step_begin") =>
          IF last.pre.m_init
          THEN ctx = [last.pre EXCEPT !.m_delta_pkeys = {}, !.m_rows_changed = FALSE,
                                      !.m_columns_changed = FALSE]
          ELSE ctx = last.pre
    /\ (last.op \in {"init", "step_end", "reset", "get_row_delta"}) =>
          get_delta_pkeys(ctx) = last.pre.m_delta_pkeys
    /\ JustReturned("get_row_delta") => Range(last.pkey_vector) = last.pre.m_delta_pkeys

\* an initialized context that tracked a key and had the flag raised
C14_Witness ==
    /\ JustReturned("step_begin")
    /\ last.pre.m_init
    /\ last.pre.m_delta_pkeys # {}
    /\ last.pre.m_has_delta
    /\ get_delta_pkeys(ctx) = {}
    /\ ctx.m_has_delta

(***************************************************************************)
(* C22: the rows_changed field get_row_delta() returns tells whether rows  *)
(* changed in the current cycle: it is true when a notify has tracked at   *)
(* least one key since the last step_begin, and false when none has.       *)
(* The context copies m_rows_changed, which no notify ever sets.  The      *)
(* value the flag has before the first step_begin is the base class's, so  *)
(* the formula states the half that does not depend on it: true when a key *)
(* was tracked.                                                            *)
(***************************************************************************)
C22_RowsChangedReflectsCycle ==
    (JustReturned("get_row_delta") /\ tracked) => last.ret.rows_changed = TRUE


(***************************************************************************)
(* The data queries against a changing master state.                       *)
(***************************************************************************)
\* the row and column arguments of get_data: negative, inverted and
\* beyond-bounds values included
IdxArgs == -1..MaxIdx

RowIdxVectors == SeqsUpTo(0..MaxIdx, MaxBatch)

PkeyVectors == SeqsUpTo(Keys, MaxBatch)

\* an UPDATE row changes the master state as the INSERT of its key and
\* value does, so the batches here are made of INSERT and DELETE rows
UpdateMaster ==
    /\ Callable
    /\ \E batch \in SeqsUpTo(OperationRows({OP_INSERT}, ValueCells), MaxUpdate) :
        m_gstate' = gstate_update(m_gstate, batch)
    /\ last' = Call("update_master", <<>>, ctx, <<>>, NoRet)
    /\ streak' = 0
    /\ UNCHANGED <<ctx, scn, conc, inserted, tracked, ws_vars>>

\* what an out-of-bounds read can do: deliver what lies there, or fault
ReadOutcomes(oob) == IF oob THEN (GarbageCells \X {FALSE}) \cup {<<t_tscalar_default, TRUE>>}
                     ELSE {<<t_tscalar_default, FALSE>>}

GetDataRange ==
    /\ Callable
    /\ \E start_row \in IdxArgs, end_row \in IdxArgs, start_col \in IdxArgs, end_col \in IdxArgs :
        \E o \in ReadOutcomes(get_data_range(m_gstate, start_row, end_row, start_col, end_col,
                                             t_tscalar_default).oob) :
            /\ last' = Call("get_data_range", <<start_row, end_row, start_col, end_col>>, ctx, <<>>,
                            get_data_range(m_gstate, start_row, end_row, start_col, end_col, o[1]))
            /\ ctx' = IF o[2] THEN psp_abort(ctx) ELSE ctx
    /\ streak' = 0
    /\ UNCHANGED <<m_gstate, scn, conc, inserted, tracked, ws_vars>>

GetDataRows ==
    /\ Callable
    /\ \E rows \in RowIdxVectors :
        \E o \in ReadOutcomes(get_data_rows(m_gstate, rows, t_tscalar_default).oob) :
            /\ last' = Call("get_data_rows", rows, ctx, <<>>, get_data_rows(m_gstate, rows, o[1]))
            /\ ctx' = IF o[2] THEN psp_abort(ctx) ELSE ctx
    /\ streak' = 0
    /\ UNCHANGED <<m_gstate, scn, conc, inserted, tracked, ws_vars>>

GetDataPkeys ==
    /\ Callable
    /\ \E pkeys \in PkeyVectors :
        last' = Call("get_data_pkeys", pkeys, ctx, <<>>, get_data_pkeys(m_gstate, pkeys))
    /\ streak' = 0
    /\ UNCHANGED <<ctx, m_gstate, scn, conc, inserted, tracked, ws_vars>>

NextData ==
    \/ UpdateMaster
    \/ GetDataRange
    \/ GetDataRows
    \/ GetDataPkeys
    \/ Return

SpecData == Init /\ [][NextData]_vars


(***************************************************************************)
(* C9: for every (start_row, end_row, start_col, end_col) the range        *)
(* get_data neither fails nor reads outside the master state, returns a    *)
(* block of num_rows x num_cols cells within the row and column counts,    *)
(* and asks the master state for the clamped row range only.               *)
(* The code hands start_row and end_row to read_column as it got them.     *)
(***************************************************************************)
\* the row indices a request for rows start..end-1 names
RowsOfRequest(req) == {i \in req[1]..(req[2] - 1) : TRUE}

C9_RangeReadIsClamped ==
    JustReturned("get_data_range") =>
        /\ ~ctx.aborted
        /\ ~last.ret.oob
        /\ 0 <= last.ret.num_rows /\ last.ret.num_rows <= get_row_count(m_gstate)
        /\ 0 <= last.ret.stride /\ last.ret.stride <= get_column_count
        /\ Len(last.ret.values) = last.ret.num_rows * last.ret.stride
        /\ \A req \in last.ret.read_reqs :
              RowsOfRequest(req) = RowsOfRequest(<<last.ret.ext.m_srow, last.ret.ext.m_erow>>)

(***************************************************************************)
(* C10: every cell returned by the three get_data overloads is a valid     *)
(* stored value or the none scalar: a cell whose stored value is invalid   *)
(* or unset comes back as none, and no invalid or unset scalar is ever     *)
(* returned.                                                               *)
(***************************************************************************)
\* what the claim expects for a stored cell
ExpectedCell(stored) == IF stored.status = "STATUS_VALID" THEN stored ELSE mknone

\* what the claim expects for the row of key k, column cidx (0-based)
ExpectedPkeyCell(g, k, cidx) ==
    IF gstate_has_pkey(g, k)
    THEN ExpectedCell(gstate_cell(g, columns[cidx + 1], (CHOOSE i \in 1..Len(g) : g[i].pkey = k) - 1))
    ELSE mknone

C10_CellsNormalized ==
    (last.op \in {"get_data_range", "get_data_rows", "get_data_pkeys"} /\ ~ctx.aborted) =>
        LET r == last.ret
        IN /\ \A i \in 1..Len(r.values) :
                /\ r.values[i].status = "STATUS_VALID"
                /\ r.values[i].type = "DTYPE_NONE" => r.values[i] = mknone
           /\ (last.op = "get_data_range" /\ ~r.oob) =>
                \A ridx \in 0..(r.num_rows - 1), c \in 0..(r.stride - 1) :
                    r.values[ridx * r.stride + c + 1] =
                        ExpectedCell(gstate_cell(m_gstate, columns[r.ext.m_scol + c + 1], r.ext.m_srow + ridx))
           /\ last.op = "get_data_rows" =>
                \A ridx \in 0..(r.num_rows - 1), c \in 0..(r.stride - 1) :
                    last.args[ridx + 1] < get_row_count(m_gstate) =>
                        r.values[ridx * r.stride + c + 1] =
                            ExpectedCell(gstate_cell(m_gstate, columns[c + 1], last.args[ridx + 1]))
           /\ last.op = "get_data_pkeys" =>
                \A ridx \in 0..(r.num_rows - 1), c \in 0..(r.stride - 1) :
                    r.values[ridx * r.stride + c + 1] = ExpectedPkeyCell(m_gstate, last.args[ridx + 1], c)

\* a range read, inside the table, of a row whose value cell is unset
C10_Witness ==
    /\ JustReturned("get_data_range")
    /\ ~ctx.aborted
    /\ ~last.ret.oob
    /\ last.ret.num_rows = 1
    /\ last.ret.stride = 2
    /\ m_gstate[last.ret.ext.m_srow + 1].value = mkclear("DTYPE_INT64")
    /\ last.ret.values[2] = mknone


(***************************************************************************)
(* The whole interface of the context, in any order of calls.              *)
(***************************************************************************)
\* the cell coordinates handed to get_pkeys
CellVectors == SeqsUpTo((0..1) \X (0..1), MaxBatch)

GetColumnName ==
    /\ Callable
    /\ \E idx \in IdxArgs :
        last' = Call("get_column_name", <<idx>>, ctx, <<>>, [value |-> get_column_name(idx)])
    /\ streak' = 0
    /\ UNCHANGED <<ctx, m_gstate, scn, conc, inserted, tracked, ws_vars>>

GetColumnDtype ==
    /\ Callable
    /\ \E idx \in IdxArgs :
        last' = Call("get_column_dtype", <<idx>>, ctx, <<>>,
                     [value |-> get_column_dtype(to_uindex(idx))])
    /\ streak' = 0
    /\ UNCHANGED <<ctx, m_gstate, scn, conc, inserted, tracked, ws_vars>>

GetPkeys ==
    /\ Callable
    /\ \E cells \in CellVectors :
        /\ ctx' = get_pkeys(ctx, cells)
        /\ last' = Call("get_pkeys", cells, ctx, <<>>,
                        IF get_pkeys(ctx, cells).aborted
                        THEN [abort |-> "Not implemented yet"]
                        ELSE [value |-> <<>>])
    /\ streak' = 0
    /\ UNCHANGED <<m_gstate, scn, conc, inserted, tracked, ws_vars>>

NextApi ==
    \/ Next
    \/ GetDataRange
    \/ GetDataRows
    \/ GetDataPkeys
    \/ GetColumnName
    \/ GetColumnDtype
    \/ GetPkeys

SpecApi == Init /\ [][NextApi]_vars

(***************************************************************************)
(* C13: once init() has made the context Ready it stays Ready: no call     *)
(* (step_begin, notify, step_end, get_data, get_row_delta, reset or any    *)
(* other) sets the initialized flag back to false, and step_end changes    *)
(* nothing of the context.                                                 *)
(***************************************************************************)
C13_ReadyStaysReady ==
    /\ (last # NoCall /\ last.pre.m_init) => ctx.m_init
    /\ JustReturned("init") => ctx.m_init
    /\ JustReturned("step_end") => ctx = last.pre

\* a reset of a Ready context that had deltas
C13_Witness ==
    /\ JustReturned("reset")
    /\ last.pre.m_init
    /\ last.pre.m_has_delta
    /\ ~ctx.m_has_delta
    /\ ctx.m_init

(***************************************************************************)
(* C15: get_column_dtype(idx) and get_column_name(idx) never fail.  For    *)
(* every idx at or beyond the column count (a negative idx is, as an       *)
(* unsigned value, beyond it) get_column_dtype returns the none type and   *)
(* get_column_name the empty string; for every idx below it they return    *)
(* the declared type and the name of column idx.                           *)
(***************************************************************************)
C15_ColumnQueriesNeverFail ==
    /\ JustReturned("get_column_dtype") =>
          /\ ~ctx.aborted
          /\ last.ret.value =
                IF 0 <= last.args[1] /\ last.args[1] < get_column_count
                THEN schema_dtypes[columns[last.args[1] + 1]]
                ELSE "DTYPE_NONE"
    /\ JustReturned("get_column_name") =>
          /\ ~ctx.aborted
          /\ last.ret.value =
                IF 0 <= last.args[1] /\ last.args[1] < get_column_count
                THEN columns[last.args[1] + 1]
                ELSE ""

\* a negative index handed to get_column_name
C15_Witness ==
    /\ JustReturned("get_column_name")
    /\ last.args[1] < 0
    /\ last.ret.value = ""

(***************************************************************************)
(* C16: get_pkeys(cells) always ends in the fatal "Not implemented yet"    *)
(* abort, for every argument, an empty cell list included, and returns no  *)
(* keys; it changes nothing else of the context.                           *)
(***************************************************************************)
C16_GetPkeysAborts ==
    JustReturned("get_pkeys") =>
        /\ ctx.aborted
        /\ last.ret = [abort |-> "Not implemented yet"]
        /\ ctx = [last.pre EXCEPT !.aborted = TRUE]

\* the call with an empty cell list
C16_Witness ==
    /\ JustReturned("get_pkeys")
    /\ last.args = <<>>
    /\ ctx.aborted


(***************************************************************************)
(* One update cycle of the notification pipeline: step_begin, the notify   *)
(* that fits the master state (the simple form against an empty one, the   *)
(* rich form otherwise), the update of the master state, step_end.         *)
(***************************************************************************)
\* the rows of a batch that are the last of their key
RECURSIVE flatten_rows(_)
flatten_rows(batch) ==
    IF batch = <<>> THEN <<>>
    ELSE IF \E j \in 2..Len(batch) : batch[j].pkey = Head(batch).pkey
         THEN flatten_rows(Tail(batch))
         ELSE <<Head(batch)>> \o flatten_rows(Tail(batch))

\* the tag a flattened row carries: a delete, or an insert (an update is an
\* insert of a key that existed)
flattened_op(op) == IF op = OP_DELETE THEN OP_DELETE ELSE OP_INSERT

\* the flattened table of a batch: one row per key, psp_pkey and psp_op
flatten(batch) ==
    LET rows == flatten_rows(batch)
    IN [i \in 1..Len(rows) |-> [pkey |-> rows[i].pkey, op |-> flattened_op(rows[i].op)]]

\* the context and the master state after one cycle
process(c, g, batch) ==
    LET flattened == flatten(batch)
        c1 == step_begin(c)
        c2 == IF g = <<>> THEN notify_simple(c1, flattened) ELSE notify_rich(c1, flattened)
    IN IF c2.aborted THEN [c |-> c2, g |-> g]
       ELSE [c |-> step_end(c2), g |-> gstate_update(g, batch)]

\* the notify of the cycle tracks a key; its step_begin comes first
process_tracks(g, batch) ==
    IF g = <<>> THEN simple_tracks(flatten(batch)) ELSE rich_tracks(flatten(batch))

\* the two batches of the concrete scenario
ScenarioBatch1 ==
    <<[pkey |-> "A", op |-> OP_INSERT, value |-> mkint("1")],
      [pkey |-> "B", op |-> OP_INSERT, value |-> mkint("2")]>>

ScenarioBatch2 ==
    <<[pkey |-> "A", op |-> OP_UPDATE, value |-> mkint("5")],
      [pkey |-> "B", op |-> OP_DELETE, value |-> mknull("DTYPE_INT64")]>>

ScenarioAfterBatch(stage, c, g, batch) ==
    IF stage = 0 /\ g = <<>> /\ c.m_symtable = <<>> /\ batch = ScenarioBatch1 THEN 1
    ELSE IF stage = 1 /\ batch = ScenarioBatch2 THEN 2
    ELSE 0

Process ==
    /\ Callable
    /\ ctx.m_init
    /\ \E batch \in SeqsUpTo(OperationRows({OP_INSERT, OP_UPDATE}, {mkint(v) : v \in Values}), MaxUpdate) :
        LET p == process(ctx, m_gstate, batch)
        IN /\ ctx' = p.c
           /\ m_gstate' = p.g
           /\ last' = Call("process", flatten(batch), ctx, <<>>, NoRet)
           /\ scn' = ScenarioAfterBatch(scn, ctx, m_gstate, batch)
           /\ tracked' = process_tracks(m_gstate, batch)
    /\ streak' = 0
    /\ UNCHANGED <<conc, inserted, ws_vars>>

NextCycle ==
    \/ CtxInit
    \/ Process
    \/ GetRowDelta
    \/ Return

SpecCycle == Init /\ [][NextCycle]_vars

(***************************************************************************)
(* C8: in the concrete scenario (cycle 1: [INSERT(A,1), INSERT(B,2)];      *)
(* cycle 2: [UPDATE(A,5), DELETE(B)]) has_deltas() is true after the       *)
(* second batch, get_row_delta() returns exactly one changed row, the row  *)
(* of A with value 5, and a second get_row_delta() returns nothing.        *)
(* The code returns a row for B too, and returns both rows again.          *)
(***************************************************************************)
C8_ScenarioDelta ==
    /\ scn = 2 => (~ctx.aborted /\ has_deltas(ctx))
    /\ (scn = 3 /\ JustReturned("get_row_delta")) =>
          /\ last.ret.num_rows = 1
          /\ last.pkey_vector = <<HandleOf(ctx, "A")>>
          /\ last.ret.data = <<mkstr("A"), mkint("5")>>
    /\ (scn = 4 /\ JustReturned("get_row_delta")) =>
          /\ last.ret.num_rows = 0
          /\ last.ret.data = <<>>


(***************************************************************************)
(* Insert-only batches into an empty master state, each run through one    *)
(* update cycle, with get_row_count() called between them.                 *)
(***************************************************************************)
InsertRows == {[pkey |-> k, op |-> OP_INSERT, value |-> mkint(v)] : k \in Keys, v \in Values}

ProcessInserts ==
    /\ Callable
    /\ \E batch \in SeqsUpTo(InsertRows, MaxUpdate) :
        LET p == process(ctx, m_gstate, batch)
        IN /\ ctx' = p.c
           /\ m_gstate' = p.g
           /\ last' = Call("process_inserts", batch, ctx, <<>>, NoRet)
           /\ inserted' = inserted \cup {batch[i].pkey : i \in 1..Len(batch)}
           /\ tracked' = process_tracks(m_gstate, batch)
    /\ streak' = 0
    /\ UNCHANGED <<scn, conc, ws_vars>>

GetRowCount ==
    /\ Callable
    /\ last' = Call("get_row_count", <<>>, ctx, <<>>, [value |-> get_row_count(m_gstate)])
    /\ streak' = 0
    /\ UNCHANGED <<ctx, m_gstate, scn, conc, inserted, tracked, ws_vars>>

NextInsert ==
    \/ CtxInit
    \/ ProcessInserts
    \/ GetRowCount
    \/ Return

SpecInsert == Init /\ [][NextInsert]_vars

(***************************************************************************)
(* C11: for every sequence of insert-only batches applied to an initially  *)
(* empty master state, get_row_count() after each batch is the number of   *)
(* distinct primary keys inserted so far: a key inserted again, in the     *)
(* same or a later batch, is counted once.                                 *)
(***************************************************************************)
C11_RowCountIsDistinctKeys ==
    /\ JustReturned("process_inserts") =>
          (~ctx.aborted /\ get_row_count(m_gstate) = Cardinality(inserted))
    /\ JustReturned("get_row_count") => last.ret.value = Cardinality(inserted)

\* a batch that inserts one key twice, after an earlier batch inserted the
\* other key
C11_Witness ==
    /\ JustReturned("process_inserts")
    /\ Len(last.args) = 2
    /\ last.args[1].pkey = last.args[2].pkey
    /\ last.args[1].value # last.args[2].value
    /\ Cardinality(inserted) = 2
    /\ get_row_count(m_gstate) = 2


(***************************************************************************)
(* get_row_delta and notify on two threads.  Nothing in either method      *)
(* excludes the other, so their statements interleave: the reader copies   *)
(* the Delta Key Set (lines 193-199), fetches the rows (201) and clears    *)
(* (203); the writer runs its loop row by row and, in the rich form, sets  *)
(* the flag at the end (276).  conc.added holds the handles the writer     *)
(* added since the reader's copy, conc.delivered the handles the last read *)
(* returned and no notify has touched since, conc.twice the handles a read *)
(* returned again without a change between.                                *)
(***************************************************************************)
\* a copy taken while the writer is inside its loop races with the inserts
\* and can miss any of the handles; otherwise it is the set as it stands
SnapshotsOf(pkeys, writer_in_loop) == IF writer_in_loop THEN SUBSET pkeys ELSE {pkeys}

G_Snapshot ==
    /\ ~ctx.aborted
    /\ conc.gpc = "idle"
    /\ \E snapshot \in SnapshotsOf(get_delta_pkeys(ctx), conc.npc = "loop") :
        \E pkey_vector \in Orderings(snapshot) :
            conc' = [conc EXCEPT !.gpc = "copied", !.g_rows_changed = ctx.m_rows_changed,
                                 !.g_pkey_vector = pkey_vector, !.added = {}]
    /\ last' = NoCall
    /\ UNCHANGED <<ctx, m_gstate, streak, scn, inserted, tracked, ws_vars>>

G_GetData ==
    /\ ~ctx.aborted
    /\ conc.gpc = "copied"
    /\ conc' = [conc EXCEPT !.gpc = "fetched",
                            !.g_data = get_data_pkeys(m_gstate,
                                [j \in 1..Len(conc.g_pkey_vector) |->
                                    handle_value(ctx.m_symtable, conc.g_pkey_vector[j])]).values]
    /\ UNCHANGED <<ctx, m_gstate, last, streak, scn, inserted, tracked, ws_vars>>

G_Clear ==
    /\ ~ctx.aborted
    /\ conc.gpc = "fetched"
    /\ ctx' = clear_deltas(ctx)
    /\ last' = Call("get_row_delta", <<>>, ctx, conc.g_pkey_vector,
                    t_rowdelta(conc.g_rows_changed, Len(conc.g_pkey_vector), conc.g_data))
    /\ conc' = [conc EXCEPT !.gpc = "idle", !.g_pkey_vector = <<>>, !.g_data = <<>>,
                            !.g_rows_changed = FALSE,
                            !.delivered = Range(conc.g_pkey_vector),
                            !.twice = Range(conc.g_pkey_vector) \cap conc.delivered]
    /\ UNCHANGED <<m_gstate, streak, scn, inserted, tracked, ws_vars>>

N_Begin ==
    /\ ~ctx.aborted
    /\ conc.npc = "idle"
    /\ \E kind \in {"rich", "simple"}, flattened \in SeqsUpTo(FlatRows, MaxConcBatch) :
        /\ conc' = [conc EXCEPT !.npc = "loop", !.n_kind = kind, !.n_flattened = flattened,
                                !.n_idx = 1, !.n_delete_encountered = FALSE]
        /\ ctx' = IF kind = "simple"
                  THEN [ctx EXCEPT !.m_has_delta = notify_simple_has_delta(flattened)]
                  ELSE ctx
    /\ last' = NoCall
    /\ UNCHANGED <<m_gstate, streak, scn, inserted, tracked, ws_vars>>

N_Row ==
    /\ ~ctx.aborted
    /\ conc.npc = "loop"
    /\ conc.n_idx <= Len(conc.n_flattened)
    /\ LET row == conc.n_flattened[conc.n_idx]
           n == IF conc.n_kind = "rich"
                THEN notify_row([c |-> ctx, delete_encountered |-> conc.n_delete_encountered], row)
                ELSE [c |-> notify_simple_row(ctx, row), delete_encountered |-> FALSE]
           touched == IF n.c.aborted THEN {} ELSE {HandleOf(n.c, row.pkey)}
       IN /\ ctx' = n.c
          /\ conc' = [conc EXCEPT !.n_idx = @ + 1,
                                  !.n_delete_encountered = n.delete_encountered,
                                  !.added = IF conc.gpc # "idle" THEN @ \cup touched ELSE @,
                                  !.delivered = @ \ touched]
          /\ tracked' = (tracked \/ ~n.c.aborted)
    /\ UNCHANGED <<m_gstate, last, streak, scn, inserted, ws_vars>>

N_End ==
    /\ ~ctx.aborted
    /\ conc.npc = "loop"
    /\ conc.n_idx > Len(conc.n_flattened)
    /\ ctx' = IF conc.n_kind = "rich"
              THEN [ctx EXCEPT !.m_has_delta = notify_has_delta(ctx, conc.n_delete_encountered)]
              ELSE ctx
    /\ conc' = [conc EXCEPT !.npc = "idle", !.n_kind = "none", !.n_flattened = <<>>,
                            !.n_idx = 0, !.n_delete_encountered = FALSE]
    /\ UNCHANGED <<m_gstate, last, streak, scn, inserted, tracked, ws_vars>>

NextConc ==
    \/ G_Snapshot
    \/ G_GetData
    \/ G_Clear
    \/ N_Begin
    \/ N_Row
    \/ N_End

SpecConc == Init /\ [][NextConc]_vars

(***************************************************************************)
(* C3: in any interleaving of notify with a get_row_delta on the same      *)
(* context no key is lost: every key notify adds between the copy of the   *)
(* Delta Key Set and the clear is still pending afterwards (has_deltas()   *)
(* true, the key in the set a later read returns), and no key is returned  *)
(* by two reads for one change.                                            *)
(* The clear at the end of get_row_delta wipes the flag the notify set.    *)
(***************************************************************************)
C3_NoKeyLostOrRepeated ==
    (JustReturned("get_row_delta") /\ conc.gpc = "idle" /\ conc.npc = "idle") =>
        /\ conc.added # {} => (has_deltas(ctx) /\ conc.added \subseteq get_delta_pkeys(ctx))
        /\ conc.twice = {}


(***************************************************************************)
(* WebSocketClient on its socket: the messages a server sends it, in any   *)
(* order and of any size.                                                  *)
(***************************************************************************)
\* the variables of the context model
ctx_vars == <<ctx, m_gstate, last, streak, scn, conc, inserted, tracked>>

\* the start of the runs of websocket.js: the context is not part of them
InitWs == Init /\ ctx = ctx_new(FALSE, FALSE)

\* the ids messages carry
MsgIds == {num(0), num(1)}

\* the data of a server message: none, one without and one with a port_id
ServerData == {undefined, [t |-> "object", port_id |-> undefined],
               [t |-> "object", port_id |-> num(0)]}

\* the JSON messages a server sends: with and without binary_length
ServerJsons ==
    {[id |-> i, binary_length |-> l, data |-> d] :
        i \in MsgIds, l \in {undefined} \cup {num(n) : n \in 0..MaxBinary}, d \in ServerData}

ClientInbound ==
    {WireJson(m) : m \in ServerJsons} \cup {WireBinary(b) : b \in SeqsUpTo(Bytes, ChunkSize)}

\* a transfer is open from its pre-message until the bytes received reach
\* the length it declared
transfer_open(c) == c.pre # undefined /\ Len(c.rcvd) < c.pre.binary_length.v

\* a JSON message that declares the length of a binary
declares_binary(data) ==
    data.kind = "string" /\ data.text = "json" /\ data.json.binary_length # undefined

\* pre, rcvd and delivered after message data took the client from c to c1
follow_transfer(c, c1, data) ==
    IF data.kind = "string" /\ data.text = "pong" THEN c1
    ELSE IF transfer_open(c)
         THEN IF data.kind = "binary"
              THEN [c1 EXCEPT !.rcvd = c.rcvd \o data.bytes, !.delivered = c.delivered \o c1.handled]
              ELSE [c1 EXCEPT !.pre = undefined, !.rcvd = <<>>, !.delivered = <<>>]
         ELSE IF declares_binary(data) /\ ~client_is_pending(c)
              THEN [c1 EXCEPT !.pre = data.json, !.rcvd = <<>>, !.delivered = c1.handled]
              ELSE [c1 EXCEPT !.pre = undefined, !.rcvd = <<>>, !.delivered = <<>>]

ClientReceive ==
    /\ \E data \in ClientInbound :
        wsclient' = follow_transfer(wsclient, onmessage(wsclient, data), data)
    /\ UNCHANGED <<ctx_vars, wsmanager>>

\* the server's answer to a ping arrives
ClientPong ==
    /\ wsclient.pongs < MaxPings
    /\ wsclient' = [follow_transfer(wsclient, onmessage(wsclient, WireString("pong")),
                                    WireString("pong")) EXCEPT !.pongs = @ + 1]
    /\ UNCHANGED <<ctx_vars, wsmanager>>

NextClient ==
    \/ ClientReceive
    \/ ClientPong

SpecClient == InitWs /\ [][NextClient]_vars

(***************************************************************************)
(* C17: after a JSON pre-message declaring binary_length L (L >= 1) the    *)
(* client hands nothing to its handler until the binary chunks received    *)
(* sum to exactly L bytes, and then it has called the handler exactly      *)
(* once, with the pre-message's id and the chunks concatenated in arrival  *)
(* order, wrapped as {port_id, delta} when the pre-message carried a       *)
(* port_id.                                                                *)
(* A pre-message with id 0 leaves _pending_binary falsy: its chunks are    *)
(* parsed as JSON and never delivered.                                     *)
(***************************************************************************)
\* the argument the handler is due for a completed transfer
ExpectedDelivery(pre, bytes) ==
    [id |-> pre.id,
     data |-> IF pre.data # undefined /\ pre.data.port_id # undefined
              THEN [t |-> "object", port_id |-> pre.data.port_id, delta |-> ArrayBuffer(bytes)]
              ELSE ArrayBuffer(bytes)]

C17_ReassemblyDeliversOnce ==
    (wsclient.pre # undefined /\ wsclient.pre.binary_length.v >= 1) =>
        /\ Len(wsclient.rcvd) < wsclient.pre.binary_length.v => wsclient.delivered = <<>>
        /\ Len(wsclient.rcvd) = wsclient.pre.binary_length.v =>
              wsclient.delivered = <<ExpectedDelivery(wsclient.pre, wsclient.rcvd)>>

(***************************************************************************)
(* C23: for every JSON pre-message with a non-zero binary_length, whatever *)
(* its id (0 included), the next message that is no pong is treated as a   *)
(* chunk of that pre-message and is not parsed as JSON: while bytes are    *)
(* outstanding the client is in its chunk branch, and no binary received   *)
(* for the transfer ends in the SyntaxError of JSON.parse.                 *)
(* The chunk branch is entered on the truthiness of the stored id.         *)
(***************************************************************************)
C23_ChunkFollowsPreMessage ==
    (wsclient.pre # undefined /\ wsclient.pre.binary_length.v >= 1) =>
        /\ Len(wsclient.rcvd) < wsclient.pre.binary_length.v => client_is_pending(wsclient)
        /\ wsclient.rcvd # <<>> => wsclient.threw # "SyntaxError"
(***************************************************************************)
(* C28: after the client has delivered a completely reassembled binary it  *)
(* is back in its normal state: the pending id, the pending length and the *)
(* pending port_id are cleared and the received-byte count is 0, so the    *)
(* next message is parsed as JSON, and a pre-message that follows starts   *)
(* its transfer at offset 0, in a fresh buffer of the length it declares,  *)
(* with its own port_id or none.                                           *)
(***************************************************************************)
\* the last message completed a transfer and its binary went to the handler
JustDelivered ==
    /\ wsclient.pre # undefined
    /\ wsclient.pre.binary_length.v >= 1
    /\ wsclient.delivered # <<>>

\* the port_id a pre-message carries
port_id_of(msg) ==
    IF msg.data # undefined /\ msg.data.port_id # undefined THEN msg.data.port_id ELSE undefined

C28_ResetAfterDelivery ==
    JustDelivered =>
        /\ wsclient._pending_binary = undefined
        /\ wsclient._pending_binary_length = undefined
        /\ wsclient._pending_port_id = undefined
        /\ wsclient._total_chunk_length = num(0)
        /\ ~client_is_pending(wsclient)
        /\ \A msg \in ServerJsons :
              LET c == onmessage(wsclient, WireJson(msg))
              IN IF announces_binary(msg)
                 THEN /\ c._total_chunk_length = num(0)
                      /\ c._full_binary = Uint8Array(msg.binary_length.v)
                      /\ c._pending_port_id = port_id_of(msg)
                      /\ c.handled = <<>>
                 ELSE c.handled = <<msg>>

\* a transfer with a port_id, received in more than one chunk
C28_Witness ==
    /\ JustDelivered
    /\ port_id_of(wsclient.pre) # undefined
    /\ Len(wsclient.rcvd) > ChunkSize
    /\ wsclient.handled = <<ExpectedDelivery(wsclient.pre, wsclient.rcvd)>>

(***************************************************************************)
(* WebSocketManager answering requests: connections are added, requests    *)
(* arrive and are entered, the engine answers them through post, with or   *)
(* without a transferable, and the timers run the _post_chunked callbacks  *)
(* in the order they were set.                                             *)
(***************************************************************************)
AddConnection ==
    /\ wsmanager.CLIENT_ID_GEN < MaxConns
    /\ wsmanager' = add_connection(wsmanager)
    /\ UNCHANGED <<ctx_vars, wsclient>>

\* requests without a binary argument, answered once or subscribed to
PlainRequests ==
    {[id |-> num(1), cmd |-> "view_method", args |-> undefined, binary_length |-> undefined,
      subscribe |-> sub] : sub \in {undefined, [t |-> "boolean", v |-> TRUE]}}

RecvRequest ==
    /\ Len(wsmanager.processed) < MaxRequests
    /\ \E w \in DOMAIN wsmanager.sockets, msg \in PlainRequests :
        wsmanager' = on_message(wsmanager, w, WireJson(JSON_stringify(msg)), 0)
    /\ UNCHANGED <<ctx_vars, wsclient>>

\* a binary of n bytes whose neighbours differ
binary_of(n) == [i \in 1..n |-> i % 2]

\* what the engine hands to post as transferable: nothing, or a binary of
\* any length, the empty one included
Transferables == {undefined} \cup {array(<<ArrayBuffer(binary_of(n))>>) : n \in 0..MaxBinary}

Post ==
    /\ Len(wsmanager.posts) < MaxPosts
    /\ \E id \in DOMAIN wsmanager.requests, transferable \in Transferables :
        wsmanager' = post(wsmanager,
                          [id |-> [t |-> "string", v |-> id], binary_length |-> undefined, data |-> undefined],
                          transferable, Len(wsmanager.posts) + 1)
    /\ UNCHANGED <<ctx_vars, wsclient>>

\* the callback of line 300, run by the timer
PostChunkedTimer ==
    /\ wsmanager.timers # <<>>
    /\ wsmanager' = post_chunked([wsmanager EXCEPT !.timers = Tail(@), !.threw = "none"],
                                 Head(wsmanager.timers))
    /\ UNCHANGED <<ctx_vars, wsclient>>

NextPost ==
    \/ AddConnection
    \/ RecvRequest
    \/ Post
    \/ PostChunkedTimer

SpecPost == InitWs /\ [][NextPost]_vars

\* timers fire: a callback handed to setTimeout runs
SpecPostFair == SpecPost /\ WF_vars(PostChunkedTimer)

(***************************************************************************)
(* C18: _post_chunked terminates for every binary and sends, in increasing *)
(* offset order, chunks that are each non-empty and at most chunk_size     *)
(* bytes, whose concatenation is the binary and whose lengths sum to the   *)
(* binary_length of the pre-message post sent before the first chunk.      *)
(***************************************************************************)
\* the messages call n of post has put on its socket so far
MessagesOfPost(n) ==
    SelectSeq(wsmanager.sockets[wsmanager.posts[n].ws].sent, LAMBDA e : e.post = n)

RECURSIVE ConcatBytes(_)
ConcatBytes(entries) ==
    IF entries = <<>> THEN <<>> ELSE Head(entries).data.bytes \o ConcatBytes(Tail(entries))

\* call n of post sent a transferable
IsTransfer(n) == wsmanager.posts[n].threw = "none" /\ wsmanager.posts[n].transferable # undefined

\* a callback of call n is still with the timers
TimerPending(n) == \E i \in 1..Len(wsmanager.timers) : wsmanager.timers[i].post = n

C18_ChunksFormBinary ==
    \A n \in 1..Len(wsmanager.posts) :
        IsTransfer(n) =>
            LET binary == wsmanager.posts[n].transferable.items[1].bytes
                msgs == MessagesOfPost(n)
                chunks == Tail(msgs)
            IN /\ msgs # <<>>
               /\ msgs[1].data.kind = "string"
               /\ msgs[1].data.json.binary_length = num(Len(binary))
               /\ \A i \in 1..Len(chunks) :
                     /\ chunks[i].data.kind = "binary"
                     /\ Len(chunks[i].data.bytes) >= 1
                     /\ Len(chunks[i].data.bytes) <= wsmanager.chunk_size
               /\ ConcatBytes(chunks) = SubSeq(binary, 1, Len(ConcatBytes(chunks)))
               /\ ~TimerPending(n) => ConcatBytes(chunks) = binary

\* the chains of callbacks end: from some point on the timers hold none
C18_PostChunkedSendsAll ==
    /\ []C18_ChunksFormBinary
    /\ <>[](wsmanager.timers = <<>>)

\* a binary longer than chunk_size, sent whole in more than one chunk
C18_Witness ==
    /\ Len(wsmanager.posts) >= 1
    /\ IsTransfer(1)
    /\ ~TimerPending(1)
    /\ Len(wsmanager.posts[1].transferable.items[1].bytes) > wsmanager.chunk_size
    /\ Len(MessagesOfPost(1)) >= 3
    /\ ConcatBytes(Tail(MessagesOfPost(1))) = wsmanager.posts[1].transferable.items[1].bytes

(***************************************************************************)
(* C25: for any sequence of post calls with transferables to one           *)
(* connection the messages of one transfer are contiguous on the socket:   *)
(* between the pre-message of a post and the last chunk sent for it so far *)
(* there is no message of another post, also when the binary is longer     *)
(* than chunk_size and its later chunks are sent from timer callbacks.     *)
(* The later chunks wait for their timers while the next post sends at     *)
(* once.                                                                   *)
(***************************************************************************)
\* the places the messages of call n of post take on its socket
PlacesOfPost(n) ==
    {i \in 1..Len(wsmanager.sockets[wsmanager.posts[n].ws].sent) :
        wsmanager.sockets[wsmanager.posts[n].ws].sent[i].post = n}

C25_TransfersAreContiguous ==
    \A n \in 1..Len(wsmanager.posts) :
        IsTransfer(n) =>
            \A i, k \in PlacesOfPost(n) : \A j \in i..k : j \in PlacesOfPost(n)

(***************************************************************************)
(* WebSocketManager receiving: the peer of a connection is a               *)
(* WebSocketClient, whose send and ping timer put messages on the          *)
(* connection; the manager's handler takes them in the order they were     *)
(* sent.                                                                   *)
(***************************************************************************)
\* the arguments of a client message: none, plain values, a binary in front
ClientArgs ==
    {undefined, array(<<>>), array(<<num(7)>>)}
        \cup {array(<<ArrayBuffer(binary_of(n))>>) : n \in 0..ChunkSize}
        \cup {array(<<ArrayBuffer(binary_of(n)), num(7), num(8)>>) : n \in 0..ChunkSize}

ClientMsgs ==
    {[id |-> i, cmd |-> "table_method", args |-> a, binary_length |-> undefined, subscribe |-> undefined] :
        i \in MsgIds, a \in ClientArgs}

\* the messages of call n of send, as the connection carries them
tagged(wire, n) == [i \in 1..Len(wire) |-> [data |-> wire[i], from |-> n]]

\* the peer of connection w calls send(msg)
peer_send(m, w, msg) ==
    [m EXCEPT !.sockets = map_set(@, w, [m.sockets[w] EXCEPT
                              !.inbox = @ \o tagged(send(msg), Len(m.sends) + 1)]),
              !.sends = Append(@, [msg |-> msg, ws |-> w, wire |-> send(msg)])]

PeerSend ==
    /\ Len(wsmanager.sends) < MaxSends
    /\ \E w \in DOMAIN wsmanager.sockets, msg \in ClientMsgs :
        wsmanager' = peer_send(wsmanager, w, msg)
    /\ UNCHANGED <<ctx_vars, wsclient>>

\* this._ws.onopen of the peer: lines 25-30
PeerOpen ==
    /\ Len(wsmanager.sends) < MaxSends
    /\ \E w \in DOMAIN wsmanager.sockets :
        wsmanager' = peer_send(wsmanager, w,
                               [id |-> num(-1), cmd |-> "init", args |-> undefined,
                                binary_length |-> undefined, subscribe |-> undefined])
    /\ UNCHANGED <<ctx_vars, wsclient>>

\* the pings of connections ws so far: the ones answered and the ones still
\* on their way
RECURSIVE pings_sent(_, _)
pings_sent(m, ws) ==
    IF ws = {} THEN 0
    ELSE LET w == CHOOSE x \in ws : TRUE
         IN Len(SelectSeq(m.sockets[w].sent, LAMBDA e : e.data = WireString("pong")))
            + Len(SelectSeq(m.sockets[w].inbox, LAMBDA e : e.from = 0))
            + pings_sent(m, ws \ {w})

\* the ping timer of the peer: lines 32-37
PeerPing ==
    /\ pings_sent(wsmanager, DOMAIN wsmanager.sockets) < MaxPings
    /\ \E w \in DOMAIN wsmanager.sockets :
        /\ wsmanager' = [wsmanager EXCEPT !.sockets = map_set(@, w, [wsmanager.sockets[w] EXCEPT
                              !.inbox = Append(@, [data |-> WireString("ping"), from |-> 0])])]
    /\ UNCHANGED <<ctx_vars, wsclient>>

\* the manager's handler runs on the next message of connection w
Deliver ==
    /\ \E w \in DOMAIN wsmanager.sockets :
        /\ wsmanager.sockets[w].readyState = OPEN
        /\ wsmanager.sockets[w].inbox # <<>>
        /\ LET entry == Head(wsmanager.sockets[w].inbox)
               m == [wsmanager EXCEPT !.sockets = map_set(@, w, [wsmanager.sockets[w] EXCEPT
                                                                   !.inbox = Tail(@)])]
           IN wsmanager' = on_message(m, w, entry.data, entry.from)
    /\ UNCHANGED <<ctx_vars, wsclient>>

NextRecv ==
    \/ AddConnection
    \/ PeerSend
    \/ PeerOpen
    \/ PeerPing
    \/ Deliver

SpecRecv == InitWs /\ [][NextRecv]_vars

(***************************************************************************)
(* C19: for every message whose args[0] is an ArrayBuffer, send emits the  *)
(* JSON pre-message (with binary_length) strictly before the buffer, and   *)
(* once both have been received the manager has handed to process exactly  *)
(* one message for them: the pre-message's cmd, its id (as the compound id *)
(* that requests_id_map maps back to it), args[0] the received buffer,     *)
(* args[1..] unchanged and no binary_length.  Stated for a manager with    *)
(* one connection.                                                         *)
(* For an empty buffer binary_length is 0: the manager takes the           *)
(* pre-message for a plain request and fails to parse the buffer.          *)
(***************************************************************************)
\* every message of call n of send has been received
AllReceived(n) ==
    \A w \in DOMAIN wsmanager.sockets :
        \A i \in 1..Len(wsmanager.sockets[w].inbox) : wsmanager.sockets[w].inbox[i].from # n

\* the calls of process made on the messages of call n of send
ProcessedOf(n) == SelectSeq(wsmanager.processed, LAMBDA e : e.from = n)

\* the message process is due for a binary send
ExpectedProcessed(sent) ==
    [sent.msg EXCEPT
        !.id = [t |-> "string", v |-> compound_id(sent.msg.id, sent.ws)],
        !.args = array(<<sent.msg.args.items[1]>> \o Tail(JSON_stringify(sent.msg).args.items))]

C19_BinaryRoundTrip ==
    \A n \in 1..Len(wsmanager.sends) :
        (sends_binary(wsmanager.sends[n].msg) /\ wsmanager.CLIENT_ID_GEN = 1) =>
            LET sent == wsmanager.sends[n]
            IN /\ Len(sent.wire) = 2
               /\ sent.wire[1].kind = "string"
               /\ sent.wire[1].json.binary_length = num(Len(sent.msg.args.items[1].bytes))
               /\ sent.wire[2] = WireBinary(sent.msg.args.items[1].bytes)
               /\ AllReceived(n) =>
                     /\ Len(ProcessedOf(n)) = 1
                     /\ ProcessedOf(n)[1].msg = ExpectedProcessed(sent)
                     /\ ProcessedOf(n)[1].client_id = sent.ws
                     /\ map_get(wsmanager.requests_id_map, ProcessedOf(n)[1].msg.id.v) = sent.msg.id

(***************************************************************************)
(* C24: with several connections on one manager a binary is combined only  *)
(* with the pre-message received on the same connection.  Once every       *)
(* message of a call of send has been received, the manager has handed to  *)
(* process exactly one message for it, under the connection it came from:  *)
(* for a request with a (non-empty) binary the pre-message with that       *)
(* binary in front of its arguments, for any other request the request     *)
(* itself, whatever arrived on other connections in between.               *)
(* The pending pre-message is a field of the manager, not of the           *)
(* connection: the next message of any connection is combined with it.     *)
(***************************************************************************)
\* the message process is due for a send without a binary
ExpectedPlain(sent) ==
    [JSON_stringify(sent.msg) EXCEPT
        !.id = [t |-> "string", v |-> compound_id(sent.msg.id, sent.ws)]]

\* a send whose binary has at least one byte
SendsBytes(msg) == sends_binary(msg) /\ msg.args.items[1].bytes # <<>>

C24_BinaryStaysOnItsConnection ==
    \A n \in 1..Len(wsmanager.sends) :
        (AllReceived(n) /\ (SendsBytes(wsmanager.sends[n].msg) \/ ~sends_binary(wsmanager.sends[n].msg))) =>
            /\ Len(ProcessedOf(n)) = 1
            /\ ProcessedOf(n)[1].client_id = wsmanager.sends[n].ws
            /\ ProcessedOf(n)[1].msg = IF sends_binary(wsmanager.sends[n].msg)
                                       THEN ExpectedProcessed(wsmanager.sends[n])
                                       ELSE ExpectedPlain(wsmanager.sends[n])

(***************************************************************************)
(* WebSocketManager hosting: tables and views are hosted under names,      *)
(* ejected, and deleted by their owners, which runs the callbacks the      *)
(* manager registered with on_delete.                                      *)
(***************************************************************************)
HostNames == {"a", "b"}

Tables == {"table1", "table2"}

Views == {"view1"}

\* an object can be hosted while it lives, a bounded number of times
Hostable(input) ==
    /\ input \notin wsmanager.deleted
    /\ Len(map_get_seq(wsmanager.on_delete, input)) < MaxHostCalls

\* host_table(name, table): lines 324-326
HostTable ==
    /\ \E name \in HostNames, table \in Tables :
        /\ Hostable(table)
        /\ wsmanager' = host(wsmanager, "_tables", name, table)
    /\ UNCHANGED <<ctx_vars, wsclient>>

\* host_view(name, view): lines 336-338
HostView ==
    /\ \E name \in HostNames, view \in Views :
        /\ Hostable(view)
        /\ wsmanager' = host(wsmanager, "_views", name, view)
    /\ UNCHANGED <<ctx_vars, wsclient>>

EjectTable ==
    /\ \E name \in HostNames : wsmanager' = eject(wsmanager, "_tables", name)
    /\ UNCHANGED <<ctx_vars, wsclient>>

EjectView ==
    /\ \E name \in HostNames : wsmanager' = eject(wsmanager, "_views", name)
    /\ UNCHANGED <<ctx_vars, wsclient>>

\* the owner deletes a table or view: its on_delete callbacks run
DeleteObject ==
    /\ \E input \in (Tables \cup Views) \ wsmanager.deleted :
        wsmanager' = [run_callbacks(wsmanager, map_get_seq(wsmanager.on_delete, input)) EXCEPT
                         !.deleted = @ \cup {input}, !.hosted = undefined, !.threw = "none"]
    /\ UNCHANGED <<ctx_vars, wsclient>>

NextHost ==
    \/ HostTable
    \/ HostView
    \/ EjectTable
    \/ EjectView
    \/ DeleteObject

SpecHost == InitWs /\ [][NextHost]_vars

(***************************************************************************)
(* C20: hosting a table or view under a name that is already hosted throws *)
(* the error "<name>" already exists and leaves the caches as they were:   *)
(* the name still maps to the first object, and no delete callback is      *)
(* registered on the rejected object.                                      *)
(***************************************************************************)
\* the cache the last call of _host was given, as it was before the call
HostedPreCache ==
    IF wsmanager.hosted.cache = "_tables" THEN wsmanager.hosted.pre_tables
    ELSE wsmanager.hosted.pre_views

C20_DuplicateHostRejected ==
    (wsmanager.hosted # undefined /\ map_has(HostedPreCache, wsmanager.hosted.name)) =>
        /\ wsmanager.threw = already_exists(wsmanager.hosted.name)
        /\ wsmanager._tables = wsmanager.hosted.pre_tables
        /\ wsmanager._views = wsmanager.hosted.pre_views
        /\ wsmanager.on_delete = wsmanager.hosted.pre_on_delete
        /\ wsmanager[wsmanager.hosted.cache][wsmanager.hosted.name]
              = HostedPreCache[wsmanager.hosted.name]

\* another object offered under a taken name
C20_Witness ==
    /\ wsmanager.hosted # undefined
    /\ map_has(HostedPreCache, wsmanager.hosted.name)
    /\ HostedPreCache[wsmanager.hosted.name] # wsmanager.hosted.input
    /\ wsmanager.threw = "\"a\" already exists"
    /\ ~map_has(wsmanager.on_delete, wsmanager.hosted.input)


(***************************************************************************)
(* C21: a hosted table or view is ejected when its delete() fires: after   *)
(* its on_delete callbacks have run, every name it was hosted under is     *)
(* absent from the cache (and so can be hosted again), and a name that     *)
(* holds another object, one hosted after this one was ejected included,   *)
(* still holds it.                                                         *)
(* The callback deletes cache[name] whatever the name holds by then.       *)
(***************************************************************************)
HostCaches == {"_tables", "_views"}

C21_DeleteEjectsOwnNames ==
    [][\A input \in wsmanager'.deleted \ wsmanager.deleted :
         \A cache \in HostCaches, name \in HostNames :
            map_has(wsmanager[cache], name) =>
                IF wsmanager[cache][name] = input
                THEN ~map_has(wsmanager'[cache], name)
                ELSE /\ map_has(wsmanager'[cache], name)
                     /\ wsmanager'[cache][name] = wsmanager[cache][name]]_vars


(***************************************************************************)
(* Heartbeats: a manager with its connections and a client, each in the    *)
(* middle of its traffic when a ping or a pong arrives.                    *)
(***************************************************************************)
\* what the peers send besides pings: a request with a binary and one
\* without
HeartbeatMsgs ==
    {[id |-> num(1), cmd |-> "table_method", args |-> a, binary_length |-> undefined,
      subscribe |-> undefined] : a \in {undefined, array(<<ArrayBuffer(<<1>>)>>)}}

HeartbeatPeerSend ==
    /\ Len(wsmanager.sends) < MaxRequests
    /\ \E w \in DOMAIN wsmanager.sockets, msg \in HeartbeatMsgs :
        wsmanager' = peer_send(wsmanager, w, msg)
    /\ UNCHANGED <<ctx_vars, wsclient>>

\* what the server sends the client besides pongs: the pre-message of a
\* transfer and its chunks
HeartbeatInbound ==
    {WireJson([id |-> num(1), binary_length |-> num(2), data |-> undefined]), WireBinary(<<1>>)}

HeartbeatClientReceive ==
    /\ \E data \in HeartbeatInbound :
        wsclient' = follow_transfer(wsclient, onmessage(wsclient, data), data)
    /\ UNCHANGED <<ctx_vars, wsmanager>>

NextHeartbeat ==
    \/ AddConnection
    \/ HeartbeatPeerSend
    \/ PeerPing
    \/ Deliver
    \/ HeartbeatClientReceive
    \/ ClientPong

SpecHeartbeat == InitWs /\ [][NextHeartbeat]_vars

(***************************************************************************)
(* C27: heartbeats are never treated as payload.  The step in which the    *)
(* manager takes a "ping" from a connection sends exactly one "pong" on    *)
(* that connection and changes nothing else but the connection's isAlive:  *)
(* no call of process, no entry in requests, the pending pre-message as it *)
(* was.  The step in which the client takes a "pong" hands nothing to the  *)
(* handler and leaves every field of the client as it was, the             *)
(* reassembly of a transfer in progress included.                          *)
(***************************************************************************)
\* the manager's handler has taken a ping from connection w
PingTaken(w) ==
    /\ w \in DOMAIN wsmanager.sockets
    /\ wsmanager.sockets[w].inbox # <<>>
    /\ Head(wsmanager.sockets[w].inbox).data = WireString("ping")
    /\ wsmanager'.sockets[w].inbox = Tail(wsmanager.sockets[w].inbox)

\* the manager after it answered a ping of connection w and did nothing else
PingAnswered(w) ==
    [wsmanager EXCEPT
        !.sockets = map_set(@, w, [wsmanager.sockets[w] EXCEPT
                        !.inbox = Tail(@),
                        !.isAlive = TRUE,
                        !.idle = 0,
                        !.sent = Append(@, [data |-> WireString("pong"), post |-> 0])]),
        !.threw = "none"]

C27_HeartbeatsAreNotPayload ==
    [][/\ \A w \in DOMAIN wsmanager.sockets : PingTaken(w) => wsmanager' = PingAnswered(w)
       /\ wsclient'.pongs # wsclient.pongs =>
             wsclient' = [wsclient EXCEPT !.pongs = @ + 1, !.handled = <<>>, !.threw = "none"]]_vars

\* a pong was sent while a pre-message was waiting for its binary, and the
\* client took a pong between a pre-message and the end of its binary
C27_Witness ==
    /\ wsmanager._pending_binary # undefined
    /\ \E w \in DOMAIN wsmanager.sockets :
          /\ wsmanager.sockets[w].sent = <<[data |-> WireString("pong"), post |-> 0]>>
          /\ wsmanager.sockets[w].inbox = <<>>
    /\ wsmanager.processed = <<>>
    /\ wsclient.pongs >= 1
    /\ client_is_pending(wsclient)
    /\ Len(wsclient.rcvd) = 1


(***************************************************************************)
(* The sweep of the manager's constructor, every 30 seconds, beside the    *)
(* traffic of the connections.                                             *)
(***************************************************************************)
Sweep ==
    /\ LET m == sweep(wsmanager, DOMAIN wsmanager.websockets)
       IN wsmanager' = [m EXCEPT !.threw = "none",
                                 !.sockets = [w \in DOMAIN m.sockets |->
                                                [m.sockets[w] EXCEPT !.idle = Min(@ + 1, 2)]]]
    /\ UNCHANGED <<ctx_vars, wsclient>>

NextSweep ==
    \/ AddConnection
    \/ HeartbeatPeerSend
    \/ PeerPing
    \/ Deliver
    \/ Sweep

SpecSweep == InitWs /\ [][NextSweep]_vars

(***************************************************************************)
(* C26: the manager clears invalid connections.  A connection added with   *)
(* add_connection that has sent no message between two consecutive sweeps  *)
(* is terminated by the second one and is no longer among the manager's    *)
(* websockets, and a connection is terminated by a sweep only then.        *)
(* Nothing ever enters this.websockets, so the sweep has no connection to  *)
(* look at.                                                                *)
(***************************************************************************)
C26_SweepClearsIdleConnections ==
    \A w \in DOMAIN wsmanager.sockets :
        /\ wsmanager.sockets[w].idle >= 2 =>
              /\ wsmanager.sockets[w].readyState = CLOSED
              /\ \A id \in DOMAIN wsmanager.websockets : wsmanager.websockets[id] # w
        /\ wsmanager.sockets[w].readyState = CLOSED => wsmanager.sockets[w].idle >= 2


(***************************************************************************)
(* Requests and their answers: the peers of the connections send requests, *)
(* with and without a binary argument, the manager's handler takes them    *)
(* one message at a time, and the engine answers through post, also for    *)
(* ids that post has answered before.                                      *)
(***************************************************************************)
\* the requests of the peers: one subscribed to, one answered once, one with
\* a binary argument
ReplyMsgs ==
    {[id |-> num(1), cmd |-> "view_method", args |-> undefined, binary_length |-> undefined,
      subscribe |-> [t |-> "boolean", v |-> TRUE]],
     [id |-> num(1), cmd |-> "view_method", args |-> undefined, binary_length |-> undefined,
      subscribe |-> undefined],
     [id |-> num(2), cmd |-> "table_method", args |-> array(<<ArrayBuffer(binary_of(1))>>),
      binary_length |-> undefined, subscribe |-> undefined]}

ReplyPeerSend ==
    /\ Len(wsmanager.sends) < MaxSends
    /\ \E w \in DOMAIN wsmanager.sockets, msg \in ReplyMsgs :
        wsmanager' = peer_send(wsmanager, w, msg)
    /\ UNCHANGED <<ctx_vars, wsclient>>

\* the ids the engine answers: the ones entered and the ones answered before
AnsweredIds == {wsmanager.posts[n].id : n \in 1..Len(wsmanager.posts)}

ReplyTransferables == {undefined, array(<<ArrayBuffer(binary_of(1))>>)}

ReplyPost ==
    /\ Len(wsmanager.posts) < MaxPosts
    /\ \E id \in DOMAIN wsmanager.requests \cup AnsweredIds, transferable \in ReplyTransferables :
        wsmanager' = post(wsmanager,
                          [id |-> [t |-> "string", v |-> id], binary_length |-> undefined, data |-> undefined],
                          transferable, Len(wsmanager.posts) + 1)
    /\ UNCHANGED <<ctx_vars, wsclient>>

NextReply ==
    \/ AddConnection
    \/ ReplyPeerSend
    \/ Deliver
    \/ ReplyPost
    \/ PostChunkedTimer

SpecReply == InitWs /\ [][NextReply]_vars

(***************************************************************************)
(* C29: the id of every message post sends to a connection is the id the   *)
(* client of that connection used in the request it answers: the compound  *)
(* key is mapped back to the id of a request this connection sent, and an  *)
(* entry of requests belongs to the connection its key names.              *)
(* A request whose pre-message came from one connection and whose second   *)
(* message came from another is entered under the second connection.       *)
(***************************************************************************)
\* the ids the client of connection w used in its requests
IdsUsedBy(w) == {wsmanager.sends[i].msg.id : i \in {j \in 1..Len(wsmanager.sends) : wsmanager.sends[j].ws = w}}

\* the JSON messages call n of post has sent
JsonOfPost(n) == SelectSeq(MessagesOfPost(n), LAMBDA e : e.data.kind = "string")

C29_PostSendsOriginalId ==
    /\ \A n \in 1..Len(wsmanager.posts) :
          wsmanager.posts[n].threw = "none" =>
              \A i \in 1..Len(JsonOfPost(n)) :
                  JsonOfPost(n)[i].data.json.id \in IdsUsedBy(wsmanager.posts[n].ws)
    /\ \A key \in DOMAIN wsmanager.requests :
          /\ map_has(wsmanager.requests_id_map, key)
          /\ key = compound_id(wsmanager.requests_id_map[key], wsmanager.requests[key].ws)

(***************************************************************************)
(* C30: a successful post for a request without the subscribe flag removes *)
(* the request's entries from requests and from requests_id_map, and a     *)
(* post for an id without an entry throws and sends nothing; a successful  *)
(* post for a request with the subscribe flag leaves both entries as they  *)
(* were, so the next post goes to the same connection with the same id.    *)
(***************************************************************************)
\* a request without a binary argument arrives: one message
RecvPlainRequest ==
    /\ Len(wsmanager.processed) < MaxSends
    /\ \E w \in DOMAIN wsmanager.sockets, msg \in PlainRequests :
        wsmanager' = on_message(wsmanager, w, WireJson(JSON_stringify(msg)), 0)
    /\ UNCHANGED <<ctx_vars, wsclient>>

\* the engine answers requests that arrive whole
NextBookkeeping ==
    \/ AddConnection
    \/ RecvPlainRequest
    \/ ReplyPost
    \/ PostChunkedTimer

SpecBookkeeping == InitWs /\ [][NextBookkeeping]_vars

\* this step is a call of post
PostStep == Len(wsmanager'.posts) = Len(wsmanager.posts) + 1

\* the call of post of this step
ThePost == wsmanager'.posts[Len(wsmanager'.posts)]

C30_PostBookkeeping ==
    [][PostStep =>
        /\ ThePost.threw = "none" =>
              /\ map_has(wsmanager.requests, ThePost.id)
              /\ IF truthy(wsmanager.requests[ThePost.id].msg.subscribe)
                 THEN /\ map_has(wsmanager'.requests, ThePost.id)
                      /\ wsmanager'.requests[ThePost.id] = wsmanager.requests[ThePost.id]
                      /\ map_has(wsmanager'.requests_id_map, ThePost.id)
                      /\ wsmanager'.requests_id_map[ThePost.id] = wsmanager.requests_id_map[ThePost.id]
                 ELSE /\ ~map_has(wsmanager'.requests, ThePost.id)
                      /\ ~map_has(wsmanager'.requests_id_map, ThePost.id)
        /\ ~map_has(wsmanager.requests, ThePost.id) =>
              /\ ThePost.threw = "TypeError"
              /\ wsmanager'.sockets = wsmanager.sockets
              /\ wsmanager'.timers = wsmanager.timers]_vars

\* a request answered once, and the second post for it, which threw
C30_Witness ==
    /\ Len(wsmanager.posts) = 2
    /\ wsmanager.posts[1].id = wsmanager.posts[2].id
    /\ wsmanager.posts[1].threw = "none"
    /\ wsmanager.posts[2].threw = "TypeError"
    /\ Len(wsmanager.sockets[wsmanager.posts[1].ws].sent) >= 1

====
